---- MODULE Spec2Model ----
(***************************************************************************)
(* A model of the MOSIP OCR text pipeline: the validation rule engine      *)
(* (src/src/ocr/validator.py) and the smart field extractor                *)
(* (src/src/ocr/field_extractor.py).                                       *)
(*                                                                         *)
(* Python strings are modelled as sequences of one-character strings, and  *)
(* Python's re module by a small backtracking matcher over a regular       *)
(* expression syntax tree, so that search, capture groups and IGNORECASE   *)
(* are computed and not assumed.                                           *)
(***************************************************************************)
EXTENDS Integers, Sequences, FiniteSets, TLC

\* Python's None where a str is expected: a value no sequence of one-character
\* strings equals.
None == << "None" >>

\* The value of a singleton set: Only({ e(x) : x \in { v } }) is e(v), with v
\* computed once.
Only(S) == CHOOSE x \in S : TRUE

\* A match object that is None, and a capture group that took no part.
NoMatch == [ok |-> FALSE, start |-> 0, end |-> 0, g1 |-> << >>]
NoSpan == << >>

(***************************************************************************)
(* Characters and str methods                                              *)
(***************************************************************************)
UpperSeq == << "A","B","C","D","E","F","G","H","I","J","K","L","M",
               "N","O","P","Q","R","S","T","U","V","W","X","Y","Z" >>
LowerSeq == << "a","b","c","d","e","f","g","h","i","j","k","l","m",
               "n","o","p","q","r","s","t","u","v","w","x","y","z" >>
Upper == { UpperSeq[i] : i \in 1..26 }
Lower == { LowerSeq[i] : i \in 1..26 }
Digit == { "0","1","2","3","4","5","6","7","8","9" }
\* \w of the re module (ASCII part) and \s, also the set str.strip() removes.
WordCh == Upper \cup Lower \cup Digit \cup { "_" }
Space == { " ", "\t", "\n" }

\* str.lower() on one character.
LowerCh(c) ==
    IF c \in Upper THEN LowerSeq[CHOOSE i \in 1..26 : UpperSeq[i] = c] ELSE c

\* str.lower()
StrLower(s) == [ i \in 1..Len(s) |-> LowerCh(s[i]) ]

\* str.upper()
UpperCh(c) ==
    IF c \in Lower THEN UpperSeq[CHOOSE i \in 1..26 : LowerSeq[i] = c] ELSE c
StrUpper(s) == [ i \in 1..Len(s) |-> UpperCh(s[i]) ]

\* s[i:] with a 0-based index i, as Python slices (i >= len(s) gives "").
SliceFrom(s, i) == IF i >= Len(s) THEN << >> ELSE SubSeq(s, i + 1, Len(s))

\* s[i:j], 0-based, j exclusive.
Slice(s, i, j) == IF i >= j THEN << >> ELSE SubSeq(s, i + 1, j)

\* sub occurs in s at 0-based offset i.
OccursAt(sub, s, i) ==
    /\ i + Len(sub) <= Len(s)
    /\ \A k \in 1..Len(sub) : s[i + k] = sub[k]

\* `sub in s`
Contains(s, sub) == \E i \in 0..Len(s) : OccursAt(sub, s, i)

\* s.find(sub): the lowest offset, -1 when absent.
Find(s, sub) ==
    IF Contains(s, sub)
    THEN CHOOSE i \in 0..Len(s) :
            /\ OccursAt(sub, s, i)
            /\ \A j \in 0..(i - 1) : ~OccursAt(sub, s, j)
    ELSE -1

\* s.lstrip() and s.strip() for whitespace.
RECURSIVE LStrip(_)
LStrip(s) == IF s # << >> /\ Head(s) \in Space THEN LStrip(Tail(s)) ELSE s

RECURSIVE RStrip(_)
RStrip(s) ==
    IF s # << >> /\ s[Len(s)] \in Space THEN RStrip(SubSeq(s, 1, Len(s) - 1)) ELSE s

Strip(s) == RStrip(LStrip(s))

(***************************************************************************)
(* Regular expressions.  A node is one of                                  *)
(*   [t |-> "chr", set |-> S]            one character of S                *)
(*   [t |-> "cat", a |-> <<n1, ...>>]    concatenation                     *)
(*   [t |-> "alt", a |-> <<n1, ...>>]    alternation, leftmost first       *)
(*   [t |-> "rep", r |-> n, lo, hi]      greedy n{lo,hi}; hi = -1 for none *)
(*   [t |-> "grp", r |-> n, k |-> i]     capturing group number i          *)
(*   [t |-> "wb"]                        \b                                *)
(*   [t |-> "bol"]                       ^                                 *)
(* The matcher backtracks as the re module does.  A thread is an attempt   *)
(* still open: [todo, pos, g1, start], the nodes left to match, the        *)
(* 0-based position reached, the span of capture group 1 (NoSpan while it  *)
(* has not taken part) and the offset the attempt started at.  Threads are *)
(* kept in the order they are tried; the first to empty its todo list is   *)
(* the match reported.                                                     *)
(***************************************************************************)
Chr(S) == [t |-> "chr", set |-> S]
Lit(c) == Chr({c})
Cat(a) == [t |-> "cat", a |-> a]
Alt(a) == [t |-> "alt", a |-> a]
Rep(r, lo, hi) == [t |-> "rep", r |-> r, lo |-> lo, hi |-> hi]
Opt(r) == Rep(r, 0, 1)
Plus(r) == Rep(r, 1, -1)
Star(r) == Rep(r, 0, -1)
Grp(r, k) == [t |-> "grp", r |-> r, k |-> k]
WB == [t |-> "wb"]
BOL == [t |-> "bol"]
\* Bookkeeping nodes: the end of group k opened at `from`, and a repetition
\* after an iteration that began at `from`.
GroupEnd(k, from) == [t |-> "gend", k |-> k, from |-> from]
RepNext(r, lo, hi, from) ==
    [t |-> "repn", r |-> r, lo |-> lo, hi |-> hi, from |-> from]

IsWordAt(s, i) == i >= 1 /\ i <= Len(s) /\ s[i] \in WordCh

\* \b holds at 0-based position p.
AtWordBoundary(s, p) == IsWordAt(s, p) # IsWordAt(s, p + 1)

CharMatches(c, S, ic) ==
    IF ic THEN \E d \in S : LowerCh(d) = LowerCh(c) ELSE c \in S

\* The threads that replace a repetition met at the thread's position:
\* one more iteration first (greedy), then leaving the repetition.
RepThreads(th, n, rest) ==
    (IF n.hi # 0
     THEN << [th EXCEPT !.todo =
                << n.r, RepNext(n.r, IF n.lo > 0 THEN n.lo - 1 ELSE 0,
                                IF n.hi > 0 THEN n.hi - 1 ELSE n.hi, th.pos) >>
                \o rest] >>
     ELSE << >>)
    \o (IF n.lo = 0 THEN << [th EXCEPT !.todo = rest] >> ELSE << >>)

\* The threads that replace thread th once its first node is taken.
StepThread(th, s, ic) ==
    LET n == Head(th.todo)
        rest == Tail(th.todo)
    IN  CASE n.t = "chr" ->
                IF th.pos < Len(s) /\ CharMatches(s[th.pos + 1], n.set, ic)
                THEN << [th EXCEPT !.todo = rest, !.pos = th.pos + 1] >>
                ELSE << >>
          [] n.t = "cat" -> << [th EXCEPT !.todo = n.a \o rest] >>
          [] n.t = "alt" ->
                [ i \in 1..Len(n.a) |-> [th EXCEPT !.todo = << n.a[i] >> \o rest] ]
          [] n.t = "rep" -> RepThreads(th, n, rest)
          [] n.t = "repn" ->
                \* an iteration that consumed nothing ends the repetition
                IF th.pos = n.from THEN << >> ELSE RepThreads(th, n, rest)
          [] n.t = "grp" ->
                << [th EXCEPT !.todo = << n.r, GroupEnd(n.k, th.pos) >> \o rest] >>
          [] n.t = "gend" ->
                << [th EXCEPT !.todo = rest,
                              !.g1 = IF n.k = 1 THEN << n.from, th.pos >> ELSE @] >>
          [] n.t = "wb" ->
                IF AtWordBoundary(s, th.pos) THEN << [th EXCEPT !.todo = rest] >>
                ELSE << >>
          [] n.t = "bol" ->
                IF th.pos = 0 THEN << [th EXCEPT !.todo = rest] >> ELSE << >>

\* Run the threads until the first in order has matched, or none is left.
RECURSIVE Run(_, _, _)
Run(threads, s, ic) ==
    IF threads = << >> THEN NoMatch
    ELSE LET th == Head(threads)
         IN  IF th.todo = << >>
             THEN [ok |-> TRUE, start |-> th.start, end |-> th.pos, g1 |-> th.g1]
             ELSE Run(StepThread(th, s, ic) \o Tail(threads), s, ic)

StartThread(n, start) ==
    [todo |-> << n >>, pos |-> start, g1 |-> NoSpan, start |-> start]

\* pattern.match(s) at offset start.
MatchAt(n, s, ic, start) == Run(<< StartThread(n, start) >>, s, ic)

\* re.search(n, s): the attempts at offsets 0, 1, ..., len(s), leftmost first.
Search(n, s, ic) ==
    Run([ i \in 1..(Len(s) + 1) |-> StartThread(n, i - 1) ], s, ic)

\* match.group(0)
Group0(s, m) == Slice(s, m.start, m.end)

\* match.group(1): None when the group took no part in the match.
Group1(s, m) == IF m.g1 = NoSpan THEN None ELSE Slice(s, m.g1[1], m.g1[2])

\* The search of findall for its next match: the attempts at offsets pos,
\* pos + 1, ..., len(s).
RECURSIVE SearchFrom(_, _, _, _)
SearchFrom(n, s, ic, pos) ==
    IF pos > Len(s) THEN NoMatch
    ELSE Only({ IF m.ok THEN m ELSE SearchFrom(n, s, ic, pos + 1) :
                m \in { MatchAt(n, s, ic, pos) } })

\* pattern.findall(s) for a pattern without groups: the non-overlapping
\* matches from left to right; after an empty match the scan moves on by one.
RECURSIVE FindAllFrom(_, _, _, _)
FindAllFrom(n, s, ic, pos) ==
    IF pos > Len(s) THEN << >>
    ELSE Only({ IF ~m.ok THEN << >>
                ELSE << Group0(s, m) >>
                     \o FindAllFrom(n, s, ic,
                                    IF m.end > m.start THEN m.end ELSE m.end + 1) :
                m \in { SearchFrom(n, s, ic, pos) } })
FindAll(n, s, ic) == FindAllFrom(n, s, ic, 0)

(***************************************************************************)
(* Compiled patterns.  A pattern is carried in the state as its source     *)
(* text; Compile gives its syntax tree and HasGroups tells whether         *)
(* match.groups() is non-empty.                                            *)
(***************************************************************************)
SepCh == Space \cup { "-" }
DateSep == { "/", "-" }
Alnum == Upper \cup Lower \cup Digit

\* The literal word w, one character after the other.
Word(w) == Cat([ i \in 1..Len(w) |-> Lit(w[i]) ])

\* The sources of the patterns of field_extractor.py.  Alternatives written in
\* Devanagari are left out: no text of the model contains such a character.
phone_pattern == "\\b(\\+?91[\\s-]?)?[6-9]\\d{2}[\\s-]?\\d{3}[\\s-]?\\d{4}\\b"
email_pattern == "\\b[A-Za-z0-9._%+-]+@[A-Za-z0-9.-]+\\.[A-Z|a-z]{2,}\\b"
number_pattern == "\\b\\d+\\b"
date_pattern ==
    "\\b\\d{1,2}[/-]\\d{1,2}[/-]\\d{2,4}\\b|\\b\\d{2,4}[/-]\\d{1,2}[/-]\\d{1,2}\\b"
alphanumeric_pattern == "\\b[A-Z0-9]{4,}\\b"
age_pattern == "\\b(\\d{1,3})\\s*(?:years?|yrs?)?\\b"
gender_pattern == "\\b(male|female|m|f)\\b"
\* Patterns a caller supplies.
digits_pattern == "\\d+"
\* r'^[\s:,-]+' of _extract_value_after_keyword.
lead_pattern == "^[\\s:,-]+"

PhoneRe ==
    Cat(<< WB,
           Opt(Grp(Cat(<< Opt(Lit("+")), Lit("9"), Lit("1"), Opt(Chr(SepCh)) >>), 1)),
           Chr({"6","7","8","9"}), Rep(Chr(Digit), 2, 2), Opt(Chr(SepCh)),
           Rep(Chr(Digit), 3, 3), Opt(Chr(SepCh)), Rep(Chr(Digit), 4, 4), WB >>)

EmailRe ==
    Cat(<< WB, Plus(Chr(Alnum \cup { ".", "_", "%", "+", "-" })), Lit("@"),
           Plus(Chr(Alnum \cup { ".", "-" })), Lit("."),
           Rep(Chr(Upper \cup Lower \cup { "|" }), 2, -1), WB >>)

NumberRe == Cat(<< WB, Plus(Chr(Digit)), WB >>)

DateRe ==
    Alt(<< Cat(<< WB, Rep(Chr(Digit), 1, 2), Chr(DateSep), Rep(Chr(Digit), 1, 2),
                  Chr(DateSep), Rep(Chr(Digit), 2, 4), WB >>),
           Cat(<< WB, Rep(Chr(Digit), 2, 4), Chr(DateSep), Rep(Chr(Digit), 1, 2),
                  Chr(DateSep), Rep(Chr(Digit), 1, 2), WB >>) >>)

AlphanumericRe == Cat(<< WB, Rep(Chr(Upper \cup Digit), 4, -1), WB >>)

AgeRe ==
    Cat(<< WB, Grp(Rep(Chr(Digit), 1, 3), 1), Star(Chr(Space)),
           Opt(Alt(<< Cat(<< Word(<< "y","e","a","r" >>), Opt(Lit("s")) >>),
                      Cat(<< Word(<< "y","r" >>), Opt(Lit("s")) >>) >>)),
           WB >>)

GenderRe ==
    Cat(<< WB,
           Grp(Alt(<< Word(<< "m","a","l","e" >>), Word(<< "f","e","m","a","l","e" >>),
                      Lit("m"), Lit("f") >>), 1),
           WB >>)

DigitsRe == Plus(Chr(Digit))
LeadRe == Cat(<< BOL, Plus(Chr(Space \cup { ":", ",", "-" })) >>)

\* The patterns of validator.py.
aadhaar_pattern == "\\b\\d{4}\\s*\\d{4}\\s*\\d{4}\\b"
pan_pattern == "\\b[A-Z]{5}\\d{4}[A-Z]{1}\\b"
date_dmY_pattern == "\\b\\d{1,2}[/-]\\d{1,2}[/-]\\d{4}\\b"
date_dmy_pattern == "\\b\\d{1,2}[/-]\\d{1,2}[/-]\\d{2}\\b"
date_Ymd_pattern == "\\b\\d{4}[/-]\\d{1,2}[/-]\\d{1,2}\\b"
passport_number_pattern == "\\b[A-Z]\\d{7}\\b"

AadhaarRe ==
    Cat(<< WB, Rep(Chr(Digit), 4, 4), Star(Chr(Space)), Rep(Chr(Digit), 4, 4),
           Star(Chr(Space)), Rep(Chr(Digit), 4, 4), WB >>)
PanRe ==
    Cat(<< WB, Rep(Chr(Upper), 5, 5), Rep(Chr(Digit), 4, 4), Rep(Chr(Upper), 1, 1),
           WB >>)
DateDmYRe ==
    Cat(<< WB, Rep(Chr(Digit), 1, 2), Chr(DateSep), Rep(Chr(Digit), 1, 2),
           Chr(DateSep), Rep(Chr(Digit), 4, 4), WB >>)
DateDmyRe ==
    Cat(<< WB, Rep(Chr(Digit), 1, 2), Chr(DateSep), Rep(Chr(Digit), 1, 2),
           Chr(DateSep), Rep(Chr(Digit), 2, 2), WB >>)
DateYmdRe ==
    Cat(<< WB, Rep(Chr(Digit), 4, 4), Chr(DateSep), Rep(Chr(Digit), 1, 2),
           Chr(DateSep), Rep(Chr(Digit), 1, 2), WB >>)
PassportNumberRe == Cat(<< WB, Chr(Upper), Rep(Chr(Digit), 7, 7), WB >>)

\* re.compile
Compile(p) ==
    CASE p = phone_pattern -> PhoneRe
      [] p = email_pattern -> EmailRe
      [] p = number_pattern -> NumberRe
      [] p = date_pattern -> DateRe
      [] p = alphanumeric_pattern -> AlphanumericRe
      [] p = age_pattern -> AgeRe
      [] p = gender_pattern -> GenderRe
      [] p = digits_pattern -> DigitsRe
      [] p = lead_pattern -> LeadRe
      [] p = aadhaar_pattern -> AadhaarRe
      [] p = pan_pattern -> PanRe
      [] p = date_dmY_pattern -> DateDmYRe
      [] p = date_dmy_pattern -> DateDmyRe
      [] p = date_Ymd_pattern -> DateYmdRe
      [] p = passport_number_pattern -> PassportNumberRe

\* Whether match.groups() is non-empty: the pattern has a capture group.
HasGroups(p) == p \in { phone_pattern, age_pattern, gender_pattern }

(***************************************************************************)
(* Validation rules (validator.py).  A rule object is a record             *)
(*   [name, kind, pattern, must_match]                                     *)
(* where kind selects the class whose validate method runs.  A result      *)
(* dictionary is a record; a key is present iff it is in its DOMAIN.       *)
(***************************************************************************)
validation_min_text_length == 2
validation_max_text_length == 1000
validation_allowed_chars ==
    Lower \cup Upper \cup Digit \cup { " ", "-", ".", ",", "/", "(", ")", "[", "]" }

LengthValidationRule ==
    [name |-> "length", kind |-> "length", pattern |-> "", must_match |-> TRUE]
CharacterValidationRule ==
    [name |-> "characters", kind |-> "characters", pattern |-> "", must_match |-> TRUE]
PatternValidationRule(pattern, name, must_match) ==
    [name |-> name, kind |-> "pattern", pattern |-> pattern, must_match |-> must_match]
\* An instance of the base class: its validate raises NotImplementedError.
BaseValidationRule(name) ==
    [name |-> name, kind |-> "base", pattern |-> "", must_match |-> TRUE]
\* A caller's subclass whose validate returns a dictionary without "valid".
CustomRuleNoValid(name) ==
    [name |-> name, kind |-> "novalid", pattern |-> "", must_match |-> TRUE]

\* The outcome of rule.validate(text): a returned dictionary or a raised error.
Returned(result) == [raised |-> FALSE, err |-> "", result |-> result]
Raised(err) == [raised |-> TRUE, err |-> err, result |-> [rule |-> ""]]

LengthValidate(rule, text) ==
    LET text_length == Len(Strip(text))
        is_valid == /\ validation_min_text_length <= text_length
                    /\ text_length <= validation_max_text_length
    IN  Returned([rule |-> rule.name,
                  valid |-> is_valid,
                  message |-> IF is_valid
                              THEN "Text length: " \o ToString(text_length)
                              ELSE "Text length " \o ToString(text_length)
                                   \o " not in range",
                  details |-> [length |-> text_length]])

CharacterValidate(rule, text) ==
    LET invalid_chars == { text[i] : i \in 1..Len(text) } \ validation_allowed_chars
        is_valid == Cardinality(invalid_chars) = 0
    IN  Returned([rule |-> rule.name,
                  valid |-> is_valid,
                  message |-> IF is_valid THEN "All characters are valid"
                              ELSE "Invalid characters found",
                  details |-> [invalid_chars |-> invalid_chars]])

PatternValidate(rule, text) ==
    LET match == Search(Compile(rule.pattern), text, TRUE)
        is_valid == IF rule.must_match THEN match.ok ELSE ~match.ok
    IN  Returned([rule |-> rule.name,
                  valid |-> is_valid,
                  message |-> IF match.ok THEN "Pattern matched"
                              ELSE "Pattern not matched",
                  details |-> [pattern_matched |-> match.ok,
                               must_match |-> rule.must_match]])

\* The document rules.
AadhaarValidationRule ==
    [name |-> "aadhaar", kind |-> "aadhaar", pattern |-> aadhaar_pattern,
     must_match |-> TRUE]
PANValidationRule ==
    [name |-> "pan", kind |-> "pan", pattern |-> pan_pattern, must_match |-> TRUE]
DateValidationRule ==
    [name |-> "date", kind |-> "date", pattern |-> "", must_match |-> TRUE]

\* re.sub(r'\s+', '', s)
RemoveSpace(s) == SelectSeq(s, LAMBDA c : c \notin Space)

\* str.isdigit()
IsDigit(s) == Len(s) > 0 /\ \A i \in 1..Len(s) : s[i] \in Digit

\* The Aadhaar rule with the matches measured as they are, whitespace
\* included.
AadhaarValidateNoClean(rule, text) ==
    Only({ LET is_valid ==
                   \E i \in 1..Len(matches) :
                       Len(matches[i]) = 12 /\ IsDigit(matches[i])
           IN  Returned([rule |-> rule.name,
                         valid |-> is_valid,
                         message |-> IF is_valid THEN "Valid Aadhaar format found"
                                     ELSE "No valid Aadhaar format found",
                         details |-> [matches |-> matches]]) :
           matches \in { FindAll(Compile(rule.pattern), text, FALSE) } })

\* AadhaarValidationRule.validate
AadhaarValidate(rule, text) ==
    Only({ LET is_valid ==
                   \E i \in 1..Len(matches) :
                       /\ Len(RemoveSpace(matches[i])) = 12
                       /\ IsDigit(RemoveSpace(matches[i]))
           IN  Returned([rule |-> rule.name,
                         valid |-> is_valid,
                         message |-> IF is_valid THEN "Valid Aadhaar format found"
                                     ELSE "No valid Aadhaar format found",
                         details |-> [matches |-> matches]]) :
           matches \in { FindAll(Compile(rule.pattern), text, FALSE) } })

\* The PAN rule searching the text as given, not its upper-cased form.
PANValidateNoUpper(rule, text) ==
    Only({ LET is_valid == Len(matches) > 0
           IN  Returned([rule |-> rule.name,
                         valid |-> is_valid,
                         message |-> IF is_valid
                                     THEN << "Valid PAN format found: ", matches[1] >>
                                     ELSE << "No valid PAN format found" >>,
                         details |-> [matches |-> matches]]) :
           matches \in { FindAll(Compile(rule.pattern), text, FALSE) } })

\* PANValidationRule.validate
PANValidate(rule, text) ==
    Only({ LET is_valid == Len(matches) > 0
           IN  Returned([rule |-> rule.name,
                         valid |-> is_valid,
                         message |-> IF is_valid
                                     THEN << "Valid PAN format found: ", matches[1] >>
                                     ELSE << "No valid PAN format found" >>,
                         details |-> [matches |-> matches]]) :
           matches \in { FindAll(Compile(rule.pattern), StrUpper(text), FALSE) } })

\* Decimal digits and numbers.
DigitSeq == << "0","1","2","3","4","5","6","7","8","9" >>
DigitVal(c) == (CHOOSE d \in 1..10 : DigitSeq[d] = c) - 1
RECURSIVE ParseInt(_)
ParseInt(s) ==
    IF s = << >> THEN 0
    ELSE ParseInt(SubSeq(s, 1, Len(s) - 1)) * 10 + DigitVal(s[Len(s)])
RECURSIVE FormatInt(_)
FormatInt(n) ==
    IF n < 10 THEN << DigitSeq[n + 1] >>
    ELSE Append(FormatInt(n \div 10), DigitSeq[(n % 10) + 1])
Pad2(n) == IF n < 10 THEN << "0" >> \o FormatInt(n) ELSE FormatInt(n)

\* match.replace('-', '/')
ReplaceDash(s) == [ i \in 1..Len(s) |-> IF s[i] = "-" THEN "/" ELSE s[i] ]

\* The three fields of d1/d2/d3.
Slash1(s) == CHOOSE i \in 1..Len(s) : s[i] = "/" /\ \A j \in 1..(i - 1) : s[j] # "/"
Slash2(s) == CHOOSE i \in (Slash1(s) + 1)..Len(s) :
                 s[i] = "/" /\ \A j \in (Slash1(s) + 1)..(i - 1) : s[j] # "/"
DateFields(s) ==
    << SubSeq(s, 1, Slash1(s) - 1), SubSeq(s, Slash1(s) + 1, Slash2(s) - 1),
       SubSeq(s, Slash2(s) + 1, Len(s)) >>

IsLeap(year) == (year % 4 = 0 /\ year % 100 # 0) \/ year % 400 = 0
DaysInMonth(year, month) ==
    CASE month = 2 -> IF IsLeap(year) THEN 29 ELSE 28
      [] month \in { 4, 6, 9, 11 } -> 30
      [] OTHER -> 31

\* The century %y gives a two-digit year.
TwoDigitYear(y) == IF y >= 69 THEN 1900 + y ELSE 2000 + y

\* datetime.strptime(s, date_format) for the three formats of the rule and a
\* string of three digit fields: the date, or ValueError.
strptime(s, date_format) ==
    LET f == DateFields(s)
        day == ParseInt(IF date_format = "%Y/%m/%d" THEN f[3] ELSE f[1])
        month == ParseInt(f[2])
        yfield == IF date_format = "%Y/%m/%d" THEN f[1] ELSE f[3]
        year == IF date_format = "%d/%m/%y" THEN TwoDigitYear(ParseInt(yfield))
                ELSE ParseInt(yfield)
        ok == /\ Len(yfield) = (IF date_format = "%d/%m/%y" THEN 2 ELSE 4)
              /\ year >= 1
              /\ month >= 1 /\ month <= 12
              /\ day >= 1 /\ day <= DaysInMonth(year, month)
    IN  [raised |-> ~ok, year |-> year, month |-> month, day |-> day]

\* parsed_date.strftime('%Y-%m-%d')
strftime(d) == FormatInt(d.year) \o << "-" >> \o Pad2(d.month) \o << "-" >> \o Pad2(d.day)

\* self.patterns
date_patterns ==
    << << date_dmY_pattern, "%d/%m/%Y" >>, << date_dmy_pattern, "%d/%m/%y" >>,
       << date_Ymd_pattern, "%Y/%m/%d" >> >>

\* The inner loop of DateValidationRule.validate over the matches of one
\* pattern: a match that does not parse is skipped.
RECURSIVE DatesOf(_, _, _)
DatesOf(matches, date_format, i) ==
    IF i > Len(matches) THEN << >>
    ELSE Only({ (IF d.raised THEN << >>
                 ELSE << [original |-> matches[i], parsed |-> strftime(d),
                          format |-> date_format] >>)
                \o DatesOf(matches, date_format, i + 1) :
                d \in { strptime(ReplaceDash(matches[i]), date_format) } })

\* The outer loop over self.patterns.
RECURSIVE FoundDates(_, _)
FoundDates(text, k) ==
    IF k > Len(date_patterns) THEN << >>
    ELSE DatesOf(FindAll(Compile(date_patterns[k][1]), text, FALSE),
                 date_patterns[k][2], 1)
         \o FoundDates(text, k + 1)

\* DateValidationRule.validate
DateValidate(rule, text) ==
    Only({ LET is_valid == Len(found_dates) > 0
           IN  Returned([rule |-> rule.name,
                         valid |-> is_valid,
                         message |-> IF is_valid
                                     THEN "Found " \o ToString(Len(found_dates))
                                          \o " valid dates"
                                     ELSE "No valid dates found",
                         details |-> [dates |-> found_dates]]) :
           found_dates \in { FoundDates(text, 1) } })

RuleValidate(rule, text) ==
    CASE rule.kind = "length" -> LengthValidate(rule, text)
      [] rule.kind = "characters" -> CharacterValidate(rule, text)
      [] rule.kind = "pattern" -> PatternValidate(rule, text)
      [] rule.kind = "aadhaar" -> AadhaarValidate(rule, text)
      [] rule.kind = "pan" -> PANValidate(rule, text)
      [] rule.kind = "date" -> DateValidate(rule, text)
      [] rule.kind = "base" -> Raised("Subclasses must implement validate method")
      [] rule.kind = "novalid" -> Returned([rule |-> rule.name,
                                            message |-> "custom result"])

(***************************************************************************)
(* TextValidator                                                           *)
(***************************************************************************)
\* rule_names of validate_text: None, or a list of names.
NoNames == [given |-> FALSE, names |-> << >>]
Names(l) == [given |-> TRUE, names |-> l]

\* Python truthiness of rule_names: None and the empty list are falsy.
Truthy(rule_names) == rule_names.given /\ rule_names.names # << >>

\* `name in rule_names`
NameIn(name, rule_names) ==
    \E i \in 1..Len(rule_names.names) : rule_names.names[i] = name

_initialize_default_rules == << LengthValidationRule, CharacterValidationRule >>

\* TextValidator.__init__(custom_rules)
TextValidatorInit(custom_rules) == _initialize_default_rules \o custom_rules

\* add_rule: self.rules.append(rule)
add_rule(rs, rule) == Append(rs, rule)

\* A remove_rule that deletes every rule of the name.
remove_rule_all(rs, rule_name) ==
    [rules |-> SelectSeq(rs, LAMBDA r : r.name # rule_name),
     ret |-> \E i \in 1..Len(rs) : rs[i].name = rule_name]

\* remove_rule: the enumerate loop from index i on; pops the first match.
RECURSIVE RemoveLoop(_, _, _)
RemoveLoop(rs, rule_name, i) ==
    IF i > Len(rs) THEN [rules |-> rs, ret |-> FALSE]
    ELSE IF rs[i].name = rule_name
         THEN [rules |-> SubSeq(rs, 1, i - 1) \o SubSeq(rs, i + 1, Len(rs)),
               ret |-> TRUE]
         ELSE RemoveLoop(rs, rule_name, i + 1)

remove_rule(rs, rule_name) == RemoveLoop(rs, rule_name, 1)

\* A blank test that forgets text.strip().
IsBlankNoStrip(text) == text = << >>

\* `not text or not text.strip()`
IsBlank(text) == text = << >> \/ Strip(text) = << >>

\* The indices (into self.rules) of rules_to_apply, in order.
RECURSIVE FilterIdx(_, _, _)
FilterIdx(rs, rule_names, i) ==
    IF i > Len(rs) THEN << >>
    ELSE (IF NameIn(rs[i].name, rule_names) THEN << i >> ELSE << >>)
         \o FilterIdx(rs, rule_names, i + 1)

\* rules_to_apply, had a filter that selects nothing fallen back on all rules.
RulesToApplyOrAll(rs, rule_names) ==
    IF Truthy(rule_names) /\ FilterIdx(rs, rule_names, 1) # << >>
    THEN FilterIdx(rs, rule_names, 1)
    ELSE [ i \in 1..Len(rs) |-> i ]

RulesToApply(rs, rule_names) ==
    IF Truthy(rule_names) THEN FilterIdx(rs, rule_names, 1)
    ELSE [ i \in 1..Len(rs) |-> i ]

\* The state of the loop of validate_text.  evaluated lists the rules whose
\* validate was called and origin the rule each rule_results entry came from,
\* both as indices into self.rules.
EmptyAcc ==
    [rule_results |-> << >>, passed_count |-> 0, failed_count |-> 0,
     evaluated |-> << >>, origin |-> << >>]

\* An except branch that forgets failed_count += 1.
ExceptBranchNoCount(acc, rule, idx, e) ==
    [acc EXCEPT
        !.rule_results = Append(@, [rule |-> rule.name,
                                    valid |-> FALSE,
                                    message |-> "Rule execution failed: " \o e,
                                    details |-> [error |-> e]]),
        !.origin = Append(@, idx)]

\* The except branch: a failing entry carrying str(e).
ExceptBranch(acc, rule, idx, e) ==
    [acc EXCEPT
        !.rule_results = Append(@, [rule |-> rule.name,
                                    valid |-> FALSE,
                                    message |-> "Rule execution failed: " \o e,
                                    details |-> [error |-> e]]),
        !.origin = Append(@, idx),
        !.failed_count = @ + 1]

\* The try body after rule.validate returned: append, then read result["valid"],
\* which raises KeyError('valid') when the key is absent.
TryBody(acc, rule, idx, result) ==
    Only({ IF "valid" \notin DOMAIN result
           THEN ExceptBranch(a, rule, idx, "'valid'")
           ELSE IF result.valid THEN [a EXCEPT !.passed_count = @ + 1]
           ELSE [a EXCEPT !.failed_count = @ + 1] :
           a \in { [acc EXCEPT !.rule_results = Append(@, result),
                               !.origin = Append(@, idx)] } })

\* One iteration of `for rule in rules_to_apply`.
ApplyRule(acc, rule, idx, text) ==
    Only({ IF out.raised THEN ExceptBranch(a, rule, idx, out.err)
           ELSE TryBody(a, rule, idx, out.result) :
           out \in { RuleValidate(rule, text) },
           a \in { [acc EXCEPT !.evaluated = Append(@, idx)] } })

RECURSIVE ApplyRules(_, _, _, _, _)
ApplyRules(acc, rs, idxs, k, text) ==
    IF k > Len(idxs) THEN acc
    ELSE Only({ ApplyRules(next, rs, idxs, k + 1, text) :
                next \in { ApplyRule(acc, rs[idxs[k]], idxs[k], text) } })

\* An overall_valid that asks for a passed rule.
OverallValidSomePassed(acc) == acc.passed_count > 0

\* overall_valid = failed_count == 0
OverallValid(acc) == acc.failed_count = 0

BlankReport ==
    [valid |-> FALSE, message |-> "Empty or whitespace-only text",
     rules_passed |-> 0, rules_failed |-> 0, rule_results |-> << >>]

\* self.rules once validate_text has returned, had the filtered list been
\* stored in it.
self_rules_filtered(rs, rule_names) ==
    [ k \in 1..Len(RulesToApply(rs, rule_names)) |-> rs[RulesToApply(rs, rule_names)[k]] ]

\* self.rules once validate_text has returned: the filtered list is bound to
\* the local name rules_to_apply and self.rules is only read.
self_rules_after(rs, rule_names) == rs

\* validate_text(text, rule_names): the report, with the loop's bookkeeping.
validate_text(rs, text, rule_names) ==
    IF IsBlank(text)
    THEN [report |-> BlankReport, evaluated |-> << >>, origin |-> << >>]
    ELSE Only({ LET overall_valid == OverallValid(acc)
                IN  [report |->
                        [valid |-> overall_valid,
                         message |-> "Validation "
                                     \o (IF overall_valid THEN "passed" ELSE "failed")
                                     \o ": " \o ToString(acc.passed_count)
                                     \o " passed, "
                                     \o ToString(acc.failed_count) \o " failed",
                         rules_passed |-> acc.passed_count,
                         rules_failed |-> acc.failed_count,
                         rule_results |-> acc.rule_results],
                     evaluated |-> acc.evaluated,
                     origin |-> acc.origin] :
                acc \in { ApplyRules(EmptyAcc, rs, idxs, 1, text) :
                          idxs \in { RulesToApply(rs, rule_names) } } })

(***************************************************************************)
(* The reference list of the rule engine: append on add, delete the first  *)
(* entry of that name on remove.                                           *)
(***************************************************************************)
RefHas(rs, name) == \E i \in 1..Len(rs) : rs[i].name = name

RefFirst(rs, name) ==
    CHOOSE i \in 1..Len(rs) :
        rs[i].name = name /\ \A j \in 1..(i - 1) : rs[j].name # name

RefRemove(rs, name) ==
    IF RefHas(rs, name)
    THEN [ j \in 1..(Len(rs) - 1) |->
            IF j < RefFirst(rs, name) THEN rs[j] ELSE rs[j + 1] ]
    ELSE rs

(***************************************************************************)
(* SmartFieldExtractor (field_extractor.py).  Names, keywords and block    *)
(* texts are strings (sequences of characters); a caller's field           *)
(* definition is a dictionary, here a record whose DOMAIN holds the keys   *)
(* the caller gave; confidences are in hundredths.                         *)
(***************************************************************************)
\* A pattern that is None (as falsy as the empty pattern).
NoPattern == ""

FieldDefinition(name, keywords, pattern, data_type, required) ==
    [name |-> name, keywords |-> keywords, pattern |-> pattern,
     data_type |-> data_type, required |-> required]

\* The keys of self.predefined_fields.
k_name == << "n","a","m","e" >>
k_age == << "a","g","e" >>
k_gender == << "g","e","n","d","e","r" >>
k_phone == << "p","h","o","n","e" >>
k_email == << "e","m","a","i","l" >>
k_address == << "a","d","d","r","e","s","s" >>
k_id_number == << "i","d","_","n","u","m","b","e","r" >>
k_date == << "d","a","t","e" >>

PredefinedKeys ==
    { k_name, k_age, k_gender, k_phone, k_email, k_address, k_id_number, k_date }

\* self.predefined_fields[key], with the keywords written in ASCII.
predefined_fields(key) ==
    CASE key = k_name ->
            FieldDefinition(<< "N","a","m","e" >>,
                << k_name, << "n","a","a","m" >>,
                   << "f","u","l","l"," ","n","a","m","e" >>,
                   << "p","a","t","i","e","n","t"," ","n","a","m","e" >> >>,
                NoPattern, "text", FALSE)
      [] key = k_age ->
            FieldDefinition(<< "A","g","e" >>,
                << k_age, << "y","e","a","r","s" >>, << "y","r","s" >> >>,
                age_pattern, "number", FALSE)
      [] key = k_gender ->
            FieldDefinition(<< "G","e","n","d","e","r" >>,
                << k_gender, << "s","e","x" >> >>,
                gender_pattern, "text", FALSE)
      [] key = k_phone ->
            FieldDefinition(<< "P","h","o","n","e" >>,
                << k_phone, << "m","o","b","i","l","e" >>,
                   << "c","o","n","t","a","c","t" >> >>,
                phone_pattern, "phone", FALSE)
      [] key = k_email ->
            FieldDefinition(<< "E","m","a","i","l" >>,
                << k_email, << "m","a","i","l" >> >>,
                email_pattern, "email", FALSE)
      [] key = k_address ->
            FieldDefinition(<< "A","d","d","r","e","s","s" >>,
                << k_address, << "a","d","d","r" >>,
                   << "a","d","d","r","e","s","s",":" >> >>,
                NoPattern, "text", FALSE)
      [] key = k_id_number ->
            FieldDefinition(<< "I","D"," ","N","u","m","b","e","r" >>,
                << << "i","d" >>, << "n","u","m","b","e","r" >>, << "n","o" >> >>,
                alphanumeric_pattern, "text", FALSE)
      [] key = k_date ->
            FieldDefinition(<< "D","a","t","e" >>,
                << k_date, << "d","a","t","e","d" >> >>,
                date_pattern, "date", FALSE)

\* self.patterns[data_type]
patterns(data_type) ==
    CASE data_type = "phone" -> phone_pattern
      [] data_type = "email" -> email_pattern
      [] data_type = "number" -> number_pattern
      [] data_type = "date" -> date_pattern
      [] data_type = "alphanumeric" -> alphanumeric_pattern

\* field_def.get(key, default)
Get(d, key, default) == IF key \in DOMAIN d THEN d[key] ELSE default

\* The same with the caller's pattern and data_type taking precedence over
\* the catalogue's.
ResolveFieldCallerFirst(field_def) ==
    LET lower == StrLower(field_def.name)
    IN  IF lower \in PredefinedKeys
        THEN LET predefined == predefined_fields(lower)
             IN  FieldDefinition(field_def.name,
                                 Get(field_def, "keywords", predefined.keywords),
                                 Get(field_def, "pattern", predefined.pattern),
                                 Get(field_def, "data_type", predefined.data_type),
                                 Get(field_def, "required", FALSE))
        ELSE FieldDefinition(field_def.name,
                             Get(field_def, "keywords", << lower >>),
                             Get(field_def, "pattern", NoPattern),
                             Get(field_def, "data_type", "text"),
                             Get(field_def, "required", FALSE))

\* The loop body of extract_fields that turns a dictionary into a
\* FieldDefinition.
ResolveField(field_def) ==
    LET lower == StrLower(field_def.name)
    IN  IF lower \in PredefinedKeys
        THEN LET predefined == predefined_fields(lower)
             IN  FieldDefinition(field_def.name,
                                 Get(field_def, "keywords", predefined.keywords),
                                 predefined.pattern,
                                 predefined.data_type,
                                 Get(field_def, "required", FALSE))
        ELSE FieldDefinition(field_def.name,
                             Get(field_def, "keywords", << lower >>),
                             Get(field_def, "pattern", NoPattern),
                             Get(field_def, "data_type", "text"),
                             Get(field_def, "required", FALSE))

\* str.split(): the maximal runs of non-whitespace characters.
RECURSIVE SplitWords(_, _, _)
SplitWords(s, i, cur) ==
    IF i > Len(s) THEN (IF cur = << >> THEN << >> ELSE << cur >>)
    ELSE IF s[i] \in Space
         THEN (IF cur = << >> THEN << >> ELSE << cur >>) \o SplitWords(s, i + 1, << >>)
         ELSE SplitWords(s, i + 1, Append(cur, s[i]))

Split(s) == SplitWords(s, 1, << >>)

\* " ".join(words)
RECURSIVE Join(_)
Join(words) ==
    IF words = << >> THEN << >>
    ELSE IF Len(words) = 1 THEN words[1]
    ELSE words[1] \o << " " >> \o Join(Tail(words))

\* words[:n]
Take(words, n) == SubSeq(words, 1, IF Len(words) < n THEN Len(words) ELSE n)

\* re.sub(r'^[\s:,-]+', '', s)
StripLead(s) ==
    LET m == MatchAt(Compile(lead_pattern), s, FALSE, 0)
    IN  IF m.ok THEN SliceFrom(s, m.end) ELSE s

\* re.sub(r'[^\w\s.-]', '', s)
CleanValue(s) == SelectSeq(s, LAMBDA c : c \in WordCh \cup Space \cup { ".", "-" })

\* any(k in keyword_lower for k in ["name", "naam", ...])
NameLike(keyword_lower) ==
    \/ Contains(keyword_lower, << "n","a","m","e" >>)
    \/ Contains(keyword_lower, << "n","a","a","m" >>)

\* A return whose confidence also depends on the length of the value found.
PairByLength(value, confidence) ==
    [value |-> value,
     confidence |-> IF Len(value) > 8 THEN confidence - 5 ELSE confidence]

\* What _extract_value_after_keyword returns: (value, confidence).
Pair(value, confidence) == [value |-> value, confidence |-> confidence]
NoValue == Pair(None, 0)

\* Python truthiness of a returned value: neither None nor ''.
TruthyStr(value) == value # None /\ value # << >>

\* The candidate region: the text after the first occurrence of the keyword,
\* less its leading separators.
AfterKeyword(text, keyword) ==
    LET keyword_pos == Find(StrLower(text), StrLower(keyword))
    IN  StripLead(SliceFrom(text, keyword_pos + Len(keyword)))

\* `if pattern:` branch: (found, pair).
PatternBranch(after_keyword, pattern) ==
    LET match == Search(Compile(pattern), after_keyword, TRUE)
    IN  IF match.ok
        THEN [found |-> TRUE,
              pair |-> Pair(IF HasGroups(pattern) THEN Group1(after_keyword, match)
                            ELSE Group0(after_keyword, match), 90)]
        ELSE [found |-> FALSE, pair |-> NoValue]

\* A data type matched with its built-in pattern, case-sensitively.
TypedBranch(after_keyword, data_type, confidence) ==
    LET match == Search(Compile(patterns(data_type)), after_keyword, FALSE)
    IN  IF match.ok
        THEN [found |-> TRUE, pair |-> Pair(Group0(after_keyword, match), confidence)]
        ELSE [found |-> FALSE, pair |-> NoValue]

\* The `else:  # text` branch.
TextBranch(after_keyword, keyword_lower) ==
    LET words == Split(after_keyword)
        value == IF NameLike(keyword_lower) THEN Strip(Join(Take(words, 3)))
                 ELSE Strip(words[1])
        cleaned == Strip(CleanValue(value))
    IN  IF words # << >> /\ cleaned # << >>
        THEN [found |-> TRUE, pair |-> Pair(cleaned, 70)]
        ELSE [found |-> FALSE, pair |-> NoValue]

\* The body of `if keyword_lower in text_lower:`; found means it returned.
KeywordBranch(text, keyword, pattern, data_type) ==
    LET after_keyword == AfterKeyword(text, keyword)
    IN  IF pattern # NoPattern THEN PatternBranch(after_keyword, pattern)
        ELSE CASE data_type = "phone" -> TypedBranch(after_keyword, "phone", 90)
               [] data_type = "email" -> TypedBranch(after_keyword, "email", 95)
               [] data_type = "number" -> TypedBranch(after_keyword, "number", 80)
               [] data_type = "date" -> TypedBranch(after_keyword, "date", 85)
               [] OTHER -> TextBranch(after_keyword, StrLower(keyword))

\* `for keyword in keywords` from index k on.
RECURSIVE KeywordLoop(_, _, _, _, _)
KeywordLoop(text, keywords, k, pattern, data_type) ==
    IF k > Len(keywords) THEN NoValue
    ELSE IF Contains(StrLower(text), StrLower(keywords[k]))
         THEN LET r == KeywordBranch(text, keywords[k], pattern, data_type)
              IN  IF r.found THEN r.pair
                  ELSE KeywordLoop(text, keywords, k + 1, pattern, data_type)
         ELSE KeywordLoop(text, keywords, k + 1, pattern, data_type)

_extract_value_after_keyword(text, keywords, pattern, data_type) ==
    KeywordLoop(text, keywords, 1, pattern, data_type)

\* What a caller passes to extract_fields.  bbox is an identifier of the
\* block's quadrilateral.
BlockPool ==
    { [text |-> << "N","a","m","e",":"," ","J","o","h","n"," ","S","m","i","t","h",
                   " ","A","g","e"," ","3","4" >>,
       bbox |-> 1],
      [text |-> << "p","h"," ","9","8","7","6","5","4","3","2","1","0" >>, bbox |-> 2],
      [text |-> << "p","h"," ","+","9","1"," ","9","8","7","6","5","4","3","2","1","0" >>,
       bbox |-> 3],
      [text |-> << "d","o","b"," ","1","/","2","/","2","0","2","0"," ",
                   "m","a","i","l"," ","a","@","b",".","c","o" >>,
       bbox |-> 4],
      [text |-> << "N","A","M","E",":" >>, bbox |-> 5] }

FieldDefPool ==
    { [name |-> k_name, keywords |-> << k_name >>, data_type |-> "text"],
      [name |-> k_phone, keywords |-> << << "p","h" >> >>],
      [name |-> << "t","e","l" >>, keywords |-> << << "p","h" >> >>,
       data_type |-> "phone"],
      [name |-> << "q","t","y" >>, keywords |-> << k_age >>, data_type |-> "number"],
      [name |-> << "m","a","i","l" >>, data_type |-> "email"],
      [name |-> << "d","o","b" >>, data_type |-> "date"],
      [name |-> << "c","o","d","e" >>, keywords |-> << k_age, << "p","h" >> >>,
       pattern |-> digits_pattern] }

\* Field definitions that name catalogue entries in other letter cases, with
\* and without keywords, pattern and data_type of the caller's, and custom
\* fields that leave them out.
CatalogueFieldDefPool ==
    { [name |-> << "P","h","o","n","e" >>, keywords |-> << << "p","h" >> >>,
       pattern |-> digits_pattern, data_type |-> "number"],
      [name |-> << "A","G","E" >>],
      [name |-> << "d","a","t","e" >>, keywords |-> << << "d","o","b" >> >>,
       data_type |-> "text"],
      [name |-> << "P","h" >>],
      [name |-> << "C","o","d","e" >>, keywords |-> << << "p","h" >> >>,
       pattern |-> digits_pattern, data_type |-> "phone"],
      [name |-> << "M","a","i","l" >>, data_type |-> "email"],
      [name |-> << "q","t","y" >>, keywords |-> << k_age, << "p","h" >> >>,
       data_type |-> "number"] }

\* A block in which two keywords of one field occur, digits following only
\* the second.
TwoKeywordBlock ==
    [text |-> << "p","h",":"," ","-","9","8",","," ","A","g","e",":" >>, bbox |-> 6]

\* _extract_value_after_keyword on every argument tuple the pools give rise
\* to, evaluated once.
ExtractArgs ==
    { << b.text, ResolveField(d).keywords, ResolveField(d).pattern,
         ResolveField(d).data_type >> :
      b \in BlockPool, d \in FieldDefPool \cup CatalogueFieldDefPool }

ExtractValueTable ==
    { [args |-> a,
       val |-> _extract_value_after_keyword(a[1], a[2], a[3], a[4])] :
      a \in ExtractArgs }

ExtractValue(text, keywords, pattern, data_type) ==
    IF \E e \in ExtractValueTable : e.args = << text, keywords, pattern, data_type >>
    THEN (CHOOSE e \in ExtractValueTable :
             e.args = << text, keywords, pattern, data_type >>).val
    ELSE _extract_value_after_keyword(text, keywords, pattern, data_type)

ExtractedField(field_name, value, confidence, source_text, bbox) ==
    [field_name |-> field_name, value |-> value, confidence |-> confidence,
     source_text |-> source_text, bbox |-> bbox]

\* A best_match that is None.
NoField == [none |-> TRUE]

\* `for keyword in field.keywords: if keyword.lower() in text`
KeywordFound(field, block) ==
    \E k \in 1..Len(field.keywords) :
        Contains(StrLower(block.text), StrLower(field.keywords[k]))

\* A comparison that lets a later block of equal confidence win.
BetterOrEqual(confidence, best_confidence) == confidence >= best_confidence

\* `confidence > best_confidence`
Better(confidence, best_confidence) == confidence > best_confidence

\* The rest of an iteration of `for block in text_blocks` once
\* _extract_value_after_keyword has returned r.  calls logs the calls: the
\* block's index and what was returned.
BlockResult(acc, field, block, bi, r) ==
    LET a == [acc EXCEPT !.calls =
                 Append(@, [block |-> bi, value |-> r.value,
                            confidence |-> r.confidence])]
    IN  IF TruthyStr(r.value) /\ Better(r.confidence, acc.best_confidence)
        THEN [a EXCEPT
                 !.best_match = ExtractedField(field.name, r.value,
                                    r.confidence, block.text, block.bbox),
                 !.best_confidence = r.confidence]
        ELSE a

\* One iteration of `for block in text_blocks`.
SingleFieldStep(acc, field, block, bi) ==
    IF KeywordFound(field, block)
    THEN Only({ BlockResult(acc, field, block, bi, r) :
                r \in { ExtractValue(block.text, field.keywords, field.pattern,
                                     field.data_type) } })
    ELSE acc

RECURSIVE SingleFieldLoop(_, _, _, _)
SingleFieldLoop(acc, field, text_blocks, bi) ==
    IF bi > Len(text_blocks) THEN acc
    ELSE Only({ SingleFieldLoop(next, field, text_blocks, bi + 1) :
                next \in { SingleFieldStep(acc, field, text_blocks[bi], bi) } })

\* _extract_single_field: best_match (NoField for None) and the call log.
_extract_single_field(field, text_blocks) ==
    SingleFieldLoop([best_match |-> NoField, best_confidence |-> 0, calls |-> << >>],
                    field, text_blocks, 1)

\* An extract_fields that emits an entry for every field definition.
KeepResultAlways(result) == TRUE

\* `if result:`
KeepResult(result) == result # NoField

\* The rest of an iteration of the second loop of extract_fields once
\* _extract_single_field has returned r.  returned lists what it returned for
\* each field definition.
FieldResult(acc, r) ==
    [extracted_fields |->
        IF KeepResult(r.best_match)
        THEN Append(acc.extracted_fields, r.best_match)
        ELSE acc.extracted_fields,
     returned |-> Append(acc.returned, r.best_match),
     calls |-> Append(acc.calls, r.calls)]

\* The second loop of extract_fields.
RECURSIVE ExtractLoop(_, _, _, _)
ExtractLoop(acc, fields_to_extract, text_blocks, fi) ==
    IF fi > Len(fields_to_extract) THEN acc
    ELSE Only({ ExtractLoop(next, fields_to_extract, text_blocks, fi + 1) :
                next \in { FieldResult(acc, r) :
                           r \in { _extract_single_field(fields_to_extract[fi],
                                                         text_blocks) } } })

extract_fields(text_blocks, field_defs) ==
    Only({ ExtractLoop([extracted_fields |-> << >>, returned |-> << >>,
                        calls |-> << >>], fields_to_extract, text_blocks, 1) :
           fields_to_extract \in
               { [ i \in 1..Len(field_defs) |-> ResolveField(field_defs[i]) ] } })

(***************************************************************************)
(* State                                                                   *)
(***************************************************************************)
\* ret, report and vcall describe the most recent call on the engine only: a
\* call of another operation clears them.
VARIABLES
    rules,      \* self.rules of the engine
    refRules,   \* the reference list, kept beside rules
    ret,        \* the add_rule / remove_rule call just made and what it returned
    report,     \* the report of the validate_text call just made
    vcall,      \* that call: its arguments and the loop's bookkeeping
    text_blocks,        \* the arguments of the extract_fields call just made
    field_definitions,
    extracted_fields,   \* what it returned
    fcall,              \* its bookkeeping: per field definition, what
                        \* _extract_single_field returned and its call log
    cfg,        \* the rule construction or extract_fields call that was given
                \* a pattern, and where an error surfaced
    http,       \* an upload request and the response it was answered with
    confidence_threshold,   \* ocr_engine.confidence_threshold, shared
    worker,     \* the pool's threads running process_image_sync
    pp,         \* a preprocess call: configuration, input, stage trace, outcome
    rcall,      \* a direct call of one rule's validate: the rule, the text, the outcome
    earlier,    \* the first validate call of a logged session on the engine, and
                \* the kinds of call made on the engine since
    ocr_engine, \* routes.py's global ocr_engine and the engines constructed for it
    health,     \* the event loop's calls of api_health_check
    ecall       \* an OCREngine.extract_text call: engine, image, what the
                \* recognizer was handed

vvars == << rules, refRules, ret, report, vcall >>
fvars == << text_blocks, field_definitions, extracted_fields, fcall >>
yvars == << cfg, http, confidence_threshold, worker, pp, rcall,
           ocr_engine, health, ecall >>
xvars == << cfg, http, confidence_threshold, worker, pp, rcall, earlier,
           ocr_engine, health, ecall >>
vars == << rules, refRules, ret, report, vcall,
           text_blocks, field_definitions, extracted_fields, fcall,
           cfg, http, confidence_threshold, worker, pp, rcall, earlier,
           ocr_engine, health, ecall >>

\* Bound on the length of the rule list (guards add_rule).
MaxRules == 3

\* Rules a caller adds.  Two different rules share the name "custom".
RulePool ==
    { BaseValidationRule("custom"),
      CustomRuleNoValid("custom"),
      PatternValidationRule(digits_pattern, "digits", TRUE) }

RuleNames == { "length", "characters", "custom", "digits", "absent" }

\* Texts handed to validate_text.
VTexts ==
    { << >>, << " ", "\t" >>, << "a" >>, << "a", "b" >>,
      << "4", "2" >>, << " ", "#", " " >> }

\* rule_names arguments.
VFilters ==
    { NoNames, Names(<< >>), Names(<< "digits", "custom" >>),
      Names(<< "custom", "characters" >>), Names(<< "absent" >>) }

NoRet == [op |-> "none", arg |-> "", value |-> FALSE, ref |-> FALSE]

NoCall ==
    [op |-> "none", text |-> << >>, rule_names |-> NoNames,
     evaluated |-> << >>, origin |-> << >>]

\* An engine constructed with custom_rules, and no call made yet.
EngineInit(custom_rules) ==
    /\ rules = TextValidatorInit(custom_rules)
    /\ refRules = _initialize_default_rules \o custom_rules
    /\ ret = NoRet
    /\ report = BlankReport
    /\ vcall = NoCall

\* An extractor about to be called with these arguments.
ExtractorInit(blocks, field_defs) ==
    /\ text_blocks = blocks
    /\ field_definitions = field_defs
    /\ extracted_fields = << >>
    /\ fcall = [op |-> "none", returned |-> << >>, calls |-> << >>]

\* No construction, request, worker or preprocess call yet.
NoCfg == [op |-> "none"]
NoHttp == [endpoint |-> "none"]
NoWorkers == << >>
NoPp == [op |-> "none"]
NoRuleCall == [op |-> "none"]
\* No log is kept of the calls on the engine; a log is kept and empty.
NoLog == [op |-> "off"]
EmptyLog == [op |-> "none"]
\* ocr_engine = None, no engine constructed; no health request; no
\* extract_text call.
NoEngine == [instance |-> 0, made |-> << >>]
NoHealth == [pc |-> "idle", served |-> 0]
NoEngineCall == [op |-> "none"]

\* The default threshold of the shared engine, in hundredths
\* (ocr.confidence_threshold of the configuration).
ocr_confidence_threshold == 80

IdleInit ==
    /\ cfg = NoCfg
    /\ http = NoHttp
    /\ confidence_threshold = ocr_confidence_threshold
    /\ worker = NoWorkers
    /\ pp = NoPp
    /\ rcall = NoRuleCall
    /\ earlier = NoLog
    /\ ocr_engine = NoEngine
    /\ health = NoHealth
    /\ ecall = NoEngineCall

Init ==
    /\ \E custom_rules \in { << >> } \cup { << r >> : r \in RulePool } :
          EngineInit(custom_rules)
    /\ ExtractorInit(<< >>, << >>)
    /\ IdleInit

\* The log after a call: the first validate_text or validate_document_type
\* call is kept with the rule list it ran on and its report, and every later
\* call adds its kind.
Logged(op, text, rule_names, document_type, rep) ==
    earlier' =
        CASE earlier.op = "off" -> earlier
          [] earlier.op = "none" ->
                 IF op \in { "validate_text", "validate_document_type" }
                 THEN [op |-> op, text |-> text, rule_names |-> rule_names,
                       document_type |-> document_type, rules |-> rules,
                       report |-> rep, since |-> { }]
                 ELSE earlier
          [] OTHER -> [earlier EXCEPT !.since = @ \cup { op }]

AddRule(rule) ==
    /\ Len(rules) < MaxRules
    /\ rules' = add_rule(rules, rule)
    /\ refRules' = refRules \o << rule >>
    /\ ret' = [op |-> "add_rule", arg |-> rule.name, value |-> FALSE, ref |-> FALSE]
    /\ report' = BlankReport
    /\ vcall' = NoCall
    /\ Logged("add_rule", << >>, NoNames, << >>, BlankReport)
    /\ UNCHANGED fvars
    /\ UNCHANGED yvars

RemoveRule(rule_name) ==
    \E r \in { remove_rule(rules, rule_name) } :
        /\ rules' = r.rules
        /\ refRules' = RefRemove(refRules, rule_name)
        /\ ret' = [op |-> "remove_rule", arg |-> rule_name, value |-> r.ret,
                   ref |-> RefHas(refRules, rule_name)]
        /\ report' = BlankReport
        /\ vcall' = NoCall
        /\ Logged("remove_rule", << >>, NoNames, << >>, BlankReport)
        /\ UNCHANGED fvars
        /\ UNCHANGED yvars

ValidateText(text, rule_names) ==
    \E v \in { validate_text(rules, text, rule_names) } :
        /\ report' = v.report
        /\ vcall' = [op |-> "validate_text", text |-> text, rule_names |-> rule_names,
                     evaluated |-> v.evaluated, origin |-> v.origin]
        /\ ret' = NoRet
        /\ rules' = self_rules_after(rules, rule_names)
        /\ Logged("validate_text", text, rule_names, << >>, v.report)
        /\ UNCHANGED refRules
        /\ UNCHANGED fvars
        /\ UNCHANGED yvars

NextValidator ==
    \/ \E rule \in RulePool : AddRule(rule)
    \/ \E rule_name \in RuleNames : RemoveRule(rule_name)
    \/ \E text \in VTexts, rule_names \in VFilters : ValidateText(text, rule_names)

SpecValidator == Init /\ [][NextValidator]_vars

(***************************************************************************)
(* The extractor: extract_fields is a function of its arguments, which     *)
(* the initial state draws from the pools; the call is the one action.     *)
(***************************************************************************)
\* Bounds on the lengths of text_blocks and field_definitions.
MaxBlocks == 2
MaxFields == 2

SeqsUpTo(S, n) == UNION { [1..k -> S] : k \in 0..n }

ExtractFields ==
    \E r \in { extract_fields(text_blocks, field_definitions) } :
        /\ fcall.op = "none"
        /\ extracted_fields' = r.extracted_fields
        /\ fcall' = [op |-> "extract_fields", returned |-> r.returned,
                     calls |-> r.calls]
        /\ UNCHANGED << text_blocks, field_definitions >>
        /\ UNCHANGED vvars
        /\ UNCHANGED xvars

InitExtractor ==
    /\ EngineInit(<< >>)
    /\ \E blocks \in SeqsUpTo(BlockPool, MaxBlocks),
          field_defs \in SeqsUpTo(FieldDefPool, MaxFields) :
            ExtractorInit(blocks, field_defs)
    /\ IdleInit

NextExtractor == ExtractFields

SpecExtractor == InitExtractor /\ [][NextExtractor]_vars

\* extract_fields called with field definitions that name, or do not name,
\* entries of the catalogue, on one block or on all blocks of BlockPool.
InitCatalogue ==
    /\ EngineInit(<< >>)
    /\ \E blocks \in { << b >> : b \in BlockPool \cup { TwoKeywordBlock } }
                      \cup { [ i \in 1..Cardinality(BlockPool) |->
                                CHOOSE b \in BlockPool : b.bbox = i ] },
          field_defs \in SeqsUpTo(CatalogueFieldDefPool, MaxFields) :
            ExtractorInit(blocks, field_defs)
    /\ IdleInit

NextCatalogue == ExtractFields

SpecCatalogue == InitCatalogue /\ [][NextCatalogue]_vars

(***************************************************************************)
(* Patterns that do not compile.  bad_pattern is a caller's regular        *)
(* expression that re.compile rejects (an unterminated group).             *)
(***************************************************************************)
bad_pattern == "("

\* re.compile(p) succeeds.
ValidRegex(p) == p # bad_pattern

\* PatternValidationRule.__init__: re.compile runs in the constructor, so
\* either a rule object exists or re.error was raised.
PatternValidationRuleInit(pattern, name, must_match) ==
    IF ValidRegex(pattern)
    THEN [raised |-> FALSE, rule |-> PatternValidationRule(pattern, name, must_match)]
    ELSE [raised |-> TRUE, rule |-> BaseValidationRule(name)]

\* _extract_value_after_keyword raises re.error: the first keyword found in
\* the text leads to re.search(pattern, ...), which compiles the pattern.
ValueCallRaises(text, keywords, pattern, data_type) ==
    /\ \E k \in 1..Len(keywords) : Contains(StrLower(text), StrLower(keywords[k]))
    /\ pattern # NoPattern
    /\ ~ValidRegex(pattern)

\* _extract_single_field raises: nothing catches the error of a block's call.
SingleFieldRaises(field, blocks) ==
    \E bi \in 1..Len(blocks) :
        /\ KeywordFound(field, blocks[bi])
        /\ ValueCallRaises(blocks[bi].text, field.keywords, field.pattern,
                           field.data_type)

\* extract_fields raises: the FieldDefinition objects are built without
\* compiling their patterns, and the second loop lets the error through.
ExtractFieldsRaises(blocks, field_defs) ==
    \E fi \in 1..Len(field_defs) :
        SingleFieldRaises(ResolveField(field_defs[fi]), blocks)

\* A caller's field definition carries a pattern that does not compile.
GivesBadPattern(field_defs) ==
    \E fi \in 1..Len(field_defs) :
        /\ "pattern" \in DOMAIN field_defs[fi]
        /\ ~ValidRegex(field_defs[fi].pattern)

\* Field definitions with and without a pattern that compiles.
ConfigFieldDefPool ==
    { [name |-> << "c","o","d","e" >>, keywords |-> << k_age, << "p","h" >> >>,
       pattern |-> digits_pattern],
      [name |-> << "m","a","i","l" >>, data_type |-> "email"],
      [name |-> << "c","o","d","e" >>, keywords |-> << k_age, << "p","h" >> >>,
       pattern |-> bad_pattern],
      [name |-> << "m","a","i","l" >>, pattern |-> bad_pattern],
      [name |-> k_phone, keywords |-> << << "p","h" >> >>, pattern |-> bad_pattern] }

\* PatternValidationRule(pattern, "digits", ...) followed, when it exists, by
\* add_rule.
ConstructRule(pattern) ==
    \E c \in { PatternValidationRuleInit(pattern, "digits", TRUE) } :
        /\ cfg.op = "none"
        /\ cfg' = [op |-> "PatternValidationRule", invalid |-> ~ValidRegex(pattern),
                   raised_at |-> IF c.raised THEN "construction" ELSE "never"]
        /\ rules' = IF c.raised THEN rules ELSE add_rule(rules, c.rule)
        /\ refRules' = IF c.raised THEN refRules ELSE refRules \o << c.rule >>
        /\ UNCHANGED << ret, report, vcall, http, confidence_threshold, worker, pp, rcall, earlier,
           ocr_engine, health, ecall >>
        /\ UNCHANGED fvars

\* validate_text on the engine that got the constructed rule.
ValidateConstructed(text) ==
    /\ cfg.op = "PatternValidationRule"
    /\ vcall.op = "none"
    /\ ValidateText(text, NoNames)

\* extract_fields with the caller's field definitions.
ExtractConfigured ==
    /\ cfg.op = "none"
    /\ fcall.op = "none"
    /\ IF ExtractFieldsRaises(text_blocks, field_definitions)
       THEN /\ cfg' = [op |-> "extract_fields", invalid |-> TRUE,
                       raised_at |-> "evaluation"]
            /\ fcall' = [op |-> "raised", returned |-> << >>, calls |-> << >>]
            /\ UNCHANGED extracted_fields
       ELSE \E r \in { extract_fields(text_blocks, field_definitions) } :
                /\ cfg' = [op |-> "extract_fields",
                           invalid |-> GivesBadPattern(field_definitions),
                           raised_at |-> "never"]
                /\ fcall' = [op |-> "extract_fields", returned |-> r.returned,
                             calls |-> r.calls]
                /\ extracted_fields' = r.extracted_fields
    /\ UNCHANGED << text_blocks, field_definitions >>
    /\ UNCHANGED << http, confidence_threshold, worker, pp, rcall, earlier,
           ocr_engine, health, ecall >>
    /\ UNCHANGED vvars

InitConfig ==
    /\ EngineInit(<< >>)
    /\ \E blocks \in SeqsUpTo(BlockPool, MaxBlocks),
          field_defs \in SeqsUpTo(ConfigFieldDefPool, MaxFields) :
            ExtractorInit(blocks, field_defs)
    /\ IdleInit

NextConfig ==
    \/ \E pattern \in { digits_pattern, bad_pattern } : ConstructRule(pattern)
    \/ \E text \in VTexts : ValidateConstructed(text)
    \/ ExtractConfigured

SpecConfig == InitConfig /\ [][NextConfig]_vars

(***************************************************************************)
(* Upload endpoints (routes.py).  A request is the upload's content type   *)
(* and file name, for /fields/extract the `fields` form string, and        *)
(* whether the processing after the checks raises.                         *)
(***************************************************************************)
image_prefix == << "i","m","a","g","e","/" >>
image_extensions ==
    { << ".","j","p","g" >>, << ".","j","p","e","g" >>, << ".","p","n","g" >>,
      << ".","t","i","f","f" >>, << ".","t","i","f" >>, << ".","b","m","p" >> }

\* s.startswith(prefix), s.endswith(suffix)
StartsWith(s, prefix) == OccursAt(prefix, s, 0)
EndsWith(s, suffix) == Len(suffix) <= Len(s) /\ OccursAt(suffix, s, Len(s) - Len(suffix))

\* x or ''
OrEmpty(x) == IF x = None THEN << >> ELSE x

\* The is_image test of the three upload endpoints.
IsImage(file) ==
    LET content_type == OrEmpty(file.content_type)
        filename == OrEmpty(file.filename)
    IN  \/ StartsWith(content_type, image_prefix)
        \/ \E ext \in image_extensions : EndsWith(StrLower(filename), ext)

ContentTypes == { None, << "i","m","a","g","e","/","p","n","g" >>,
                  << "t","e","x","t","/","p","l","a","i","n" >> }
Filenames == { None, << "a",".","p","n","g" >>, << "A",".","J","P","G" >>,
               << "a",".","p","d","f" >>, << "a",".","j","p","g",".","t","x","t" >> }
Uploads == [content_type : ContentTypes, filename : Filenames]

\* `fields` form strings, and the ones json.loads accepts.
fields_list == << "[","{","}","]" >>
fields_empty == << "[","]" >>
fields_broken == << "[","{" >>
FieldsStrings == { fields_list, fields_empty, fields_broken }
JsonLoadsRaises(s) == s \notin { fields_list, fields_empty }

\* raise HTTPException(status_code=...), any other exception, and a response.
HTTPException(status_code) == [exc |-> "HTTPException", status_code |-> status_code]
OtherException == [exc |-> "Exception", status_code |-> 0]
NoException == [exc |-> "none", status_code |-> 0]

\* The try body of /ocr/extract and of /document/process up to its end.
UploadBody(file, fails) ==
    IF ~IsImage(file) THEN HTTPException(400)
    ELSE IF fails THEN OtherException
    ELSE NoException

\* The try body of /fields/extract: the file check, then json.loads(fields).
FieldsBody(file, fields, fails) ==
    IF ~IsImage(file) THEN HTTPException(400)
    ELSE IF JsonLoadsRaises(fields) THEN HTTPException(400)
    ELSE IF fails THEN OtherException
    ELSE NoException

\* `except Exception as e: raise HTTPException(status_code=500, ...)` around
\* the body: HTTPException is an Exception, so it is caught as well.  The
\* framework answers with the status of the HTTPException that leaves the
\* handler.
Respond(body) ==
    IF body.exc = "none" THEN 200 ELSE HTTPException(500).status_code

HttpIdle ==
    /\ http.endpoint = "none"
    /\ UNCHANGED << cfg, confidence_threshold, worker, pp, rcall, earlier,
           ocr_engine, health, ecall >>
    /\ UNCHANGED vvars
    /\ UNCHANGED fvars

\* POST /ocr/extract
extract_text(file, fails) ==
    /\ HttpIdle
    /\ http' = [endpoint |-> "/ocr/extract", file |-> file, fields |-> None,
                raised |-> UploadBody(file, fails),
                status |-> Respond(UploadBody(file, fails))]

\* POST /document/process
process_document(file, fails) ==
    /\ HttpIdle
    /\ http' = [endpoint |-> "/document/process", file |-> file, fields |-> None,
                raised |-> UploadBody(file, fails),
                status |-> Respond(UploadBody(file, fails))]

\* POST /fields/extract
extract_custom_fields(file, fields, fails) ==
    /\ HttpIdle
    /\ http' = [endpoint |-> "/fields/extract", file |-> file, fields |-> fields,
                raised |-> FieldsBody(file, fields, fails),
                status |-> Respond(FieldsBody(file, fields, fails))]

InitHttp == EngineInit(<< >>) /\ ExtractorInit(<< >>, << >>) /\ IdleInit

NextHttp ==
    \/ \E file \in Uploads, fails \in BOOLEAN : extract_text(file, fails)
    \/ \E file \in Uploads, fails \in BOOLEAN : process_document(file, fails)
    \/ \E file \in Uploads, fields \in FieldsStrings, fails \in BOOLEAN :
           extract_custom_fields(file, fields, fails)

SpecHttp == InitHttp /\ [][NextHttp]_vars

(***************************************************************************)
(* The worker pool and the shared engine (routes.py, engine.py).  Every    *)
(* extraction request runs process_image_sync on a thread of the pool; all *)
(* threads use the one engine object, whose confidence_threshold attribute *)
(* is written by process_image_sync and read by extract_text.  Confidences *)
(* are in hundredths.                                                      *)
(***************************************************************************)
MaxRequests == 2

\* reader.readtext(image): the detections of an image, here the image itself.
Detection(text, confidence) == [text |-> text, confidence |-> confidence]
Images ==
    { << Detection("a", 95), Detection("b", 60) >>,
      << Detection("c", 85) >>,
      << Detection("d", 50), Detection("e", 90), Detection("f", 75) >> }
readtext(image) == image

\* Thresholds of requests (the confidence_threshold form value).
Thresholds == { 50, 70, 90 }

\* The loop over results: `if confidence >= threshold` keeps a detection.
Accepted(results, threshold) ==
    LET Keep(d) == d.confidence >= threshold
    IN  SelectSeq(results, Keep)

\* What the threads of the pool leave alone.
WorkerFrame ==
    /\ UNCHANGED << cfg, http, pp, rcall, earlier,
           ocr_engine, health, ecall >>
    /\ UNCHANGED vvars
    /\ UNCHANGED fvars

\* loop.run_in_executor(executor, process_image_sync, temp_path,
\* confidence_threshold): a thread starts process_image_sync.
Submit(image, threshold) ==
    /\ Len(worker) < MaxRequests
    /\ worker' = Append(worker, [pc |-> "set", image |-> image,
                                 confidence_threshold |-> threshold,
                                 threshold |-> 0, blocks |-> << >>])
    /\ UNCHANGED confidence_threshold
    /\ WorkerFrame

\* engine.confidence_threshold = confidence_threshold
SetThreshold(w) ==
    /\ worker[w].pc = "set"
    /\ confidence_threshold' = worker[w].confidence_threshold
    /\ worker' = [worker EXCEPT ![w].pc = "read"]
    /\ WorkerFrame

\* extract_text: threshold = confidence_threshold or self.confidence_threshold
\* with the argument left at None.
ReadThreshold(w) ==
    /\ worker[w].pc = "read"
    /\ worker' = [worker EXCEPT ![w].pc = "recognize",
                                ![w].threshold = confidence_threshold]
    /\ UNCHANGED confidence_threshold
    /\ WorkerFrame

\* extract_text: readtext and the filter by the local threshold.
Recognize(w) ==
    /\ worker[w].pc = "recognize"
    /\ worker' = [worker EXCEPT
                    ![w].pc = "done",
                    ![w].blocks = Accepted(readtext(worker[w].image),
                                           worker[w].threshold)]
    /\ UNCHANGED confidence_threshold
    /\ WorkerFrame

InitWorkers == EngineInit(<< >>) /\ ExtractorInit(<< >>, << >>) /\ IdleInit

NextWorkers ==
    \/ \E image \in Images, threshold \in Thresholds : Submit(image, threshold)
    \/ \E w \in 1..Len(worker) : SetThreshold(w)
    \/ \E w \in 1..Len(worker) : ReadThreshold(w)
    \/ \E w \in 1..Len(worker) : Recognize(w)

SpecWorkers == InitWorkers /\ [][NextWorkers]_vars

(***************************************************************************)
(* ImagePreprocessor (preprocessor.py).  An array is a record              *)
(*   [id, shape, data, applied]                                            *)
(* id is the identity of the array object, shape is (height, width) or     *)
(* (height, width, channels), data the pixels it was loaded with in        *)
(* row-major order, and applied the filters run over them since, in order. *)
(* resize_factor is in tenths, angles are in degrees.                      *)
(***************************************************************************)
Array(id, shape, data, applied) ==
    [id |-> id, shape |-> shape, data |-> data, applied |-> applied]

\* Results of the private methods: an array and the next unused identity, or
\* an exception.
Ok(img, next) == [raised |-> FALSE, err |-> "", img |-> img, next |-> next]
Fail(err, img, next) == [raised |-> TRUE, err |-> err, img |-> img, next |-> next]

\* cv2.cvtColor(a, cv2.COLOR_RGB2BGR) on the pixels: the channel order of
\* every pixel is reversed.
ReversePixel(px) == [ c \in 1..Len(px) |-> px[Len(px) + 1 - c] ]
RGB2BGR(data) == [ i \in 1..Len(data) |-> ReversePixel(data[i]) ]

_load_image(image, next) ==
    CASE image.kind = "path" ->
            IF image.readable
            THEN Ok(Array(next, image.shape, image.data, << >>), next + 1)
            ELSE Fail("ValueError", Array(next, << >>, << >>, << >>), next)
      [] image.kind = "ndarray" ->
            Ok(Array(next, image.shape, image.data, image.applied), next + 1)
      [] image.kind = "pil" ->
            IF Len(image.shape) = 3
            THEN Ok(Array(next + 1, image.shape, RGB2BGR(image.data), << >>), next + 2)
            ELSE Fail("cv2.error", Array(next, image.shape, image.data, << >>), next + 1)
      [] OTHER -> Fail("TypeError", Array(next, << >>, << >>, << >>), next)

\* The signed offset of a line angle, and twice the median of a sequence.
Offset(angle) == IF angle > 90 THEN angle - 180 ELSE angle
Kth(seq, k) ==
    CHOOSE v \in { seq[i] : i \in 1..Len(seq) } :
        /\ Cardinality({ i \in 1..Len(seq) : seq[i] < v }) < k
        /\ k <= Cardinality({ i \in 1..Len(seq) : seq[i] <= v })
Median2(seq) == Kth(seq, (Len(seq) + 1) \div 2) + Kth(seq, (Len(seq) + 2) \div 2)
Abs(x) == IF x < 0 THEN -x ELSE x

\* cos and sin of an angle in thousandths, for the angles of the line pool.
Cos1000(a) ==
    CASE Abs(a) = 1 -> 999 [] Abs(a) = 2 -> 999 [] Abs(a) = 5 -> 996
      [] Abs(a) = 85 -> 87 [] Abs(a) = 90 -> 0 [] OTHER -> 1000
Sin1000(a) ==
    CASE Abs(a) = 1 -> 17 [] Abs(a) = 2 -> 34 [] Abs(a) = 5 -> 87
      [] Abs(a) = 85 -> 996 [] Abs(a) = 90 -> 1000 [] OTHER -> 0

\* A shape with its height and width replaced.
Reshaped(shape, height, width) ==
    IF Len(shape) = 3 THEN << height, width, shape[3] >> ELSE << height, width >>

_rotate_image(image, angle, fails, next) ==
    LET height == image.shape[1]
        width == image.shape[2]
        new_width == ((height * Sin1000(angle)) + (width * Cos1000(angle))) \div 1000
        new_height == ((height * Cos1000(angle)) + (width * Sin1000(angle))) \div 1000
    IN  IF fails THEN Fail("cv2.error", image, next)
        ELSE Ok(Array(next, Reshaped(image.shape, new_height, new_width), image.data,
                      Append(image.applied, "rotate")), next + 1)

\* lines[:10] and the angles read from it.  With the lines in an array of
\* shape (N, 1, 2) the unpacking `for rho, theta in ...` raises ValueError.
First10(thetas) == SubSeq(thetas, 1, IF Len(thetas) < 10 THEN Len(thetas) ELSE 10)
Angles(thetas) == [ i \in 1..Len(First10(thetas)) |-> Offset(thetas[i]) ]

\* The try body of _auto_rotate; env says what the detector reports and which
\* call fails.
AutoRotateBody(image, env, next) ==
    IF Len(image.shape) # 3 \/ env.fails_at = "gray" THEN Fail("cv2.error", image, next)
    ELSE IF env.fails_at = "edges" THEN Fail("cv2.error", image, next)
    ELSE IF env.fails_at = "lines" THEN Fail("cv2.error", image, next)
    ELSE IF ~env.lines.found THEN Ok(image, next)
    ELSE IF env.lines.layout = "N12" THEN Fail("ValueError", image, next)
    ELSE IF Len(Angles(env.lines.thetas)) > 0 /\ Abs(Median2(Angles(env.lines.thetas))) > 2
         THEN _rotate_image(image, Median2(Angles(env.lines.thetas)) \div 2,
                            env.fails_at = "rotate", next)
    ELSE Ok(image, next)

\* _auto_rotate without its except clause.
_auto_rotate_raising(image, env, next) ==
    AutoRotateBody(image, env, next)

\* except Exception: log a warning, return image.
_auto_rotate(image, env, next) ==
    Only({ IF r.raised THEN Ok(image, next) ELSE r :
           r \in { AutoRotateBody(image, env, next) } })

\* No except clause: a failure of the filter leaves _denoise.
_denoise(image, env, next) ==
    IF env.denoise_fails THEN Fail("cv2.error", image, next)
    ELSE Ok(Array(next, image.shape, image.data, Append(image.applied, "denoise")),
            next + 1)

_enhance_contrast(image, next) ==
    Ok(Array(next, image.shape, image.data, Append(image.applied, "enhance_contrast")),
       next + 1)

\* int(width * factor), int(height * factor); cv2.resize rejects an empty
\* target size.
_resize(image, factor, next) ==
    LET new_width == (image.shape[2] * factor) \div 10
        new_height == (image.shape[1] * factor) \div 10
    IN  IF new_width = 0 \/ new_height = 0 THEN Fail("cv2.error", image, next)
        ELSE Ok(Array(next, Reshaped(image.shape, new_height, new_width), image.data,
                      Append(image.applied, "resize")), next + 1)

\* The state of a preprocess call between stages: the current img, the
\* calls made so far and whether an exception is on its way out.
Stage(stage, enabled, st, r) ==
    IF st.raised \/ ~enabled THEN st
    ELSE [raised |-> r.raised, err |-> r.err,
          img |-> IF r.raised THEN st.img ELSE r.img,
          next |-> r.next,
          trace |-> Append(st.trace, [stage |-> stage, input |-> st.img,
                                      raised |-> r.raised, output |-> r.img])]

Loaded(self, image) ==
    Only({ [raised |-> r.raised, err |-> r.err, img |-> r.img, next |-> r.next,
            trace |-> << >>] : r \in { _load_image(image, 1) } })

AfterAutoRotate(self, image, env) ==
    Only({ Stage("auto_rotate", self.auto_rotate, st,
                 _auto_rotate(st.img, env, st.next)) :
           st \in { Loaded(self, image) } })

\* The denoise stage without the test of its flag.
AfterDenoiseUnguarded(self, image, env) ==
    Only({ Stage("denoise", TRUE, st, _denoise(st.img, env, st.next)) :
           st \in { AfterAutoRotate(self, image, env) } })

AfterDenoise(self, image, env) ==
    Only({ Stage("denoise", self.denoise, st, _denoise(st.img, env, st.next)) :
           st \in { AfterAutoRotate(self, image, env) } })

AfterEnhance(self, image, env) ==
    Only({ Stage("enhance_contrast", self.enhance_contrast, st,
                 _enhance_contrast(st.img, st.next)) :
           st \in { AfterDenoise(self, image, env) } })

\* preprocess: the except clause logs and re-raises.
preprocess(self, image, env) ==
    Only({ Stage("resize", self.resize_factor # 10, st,
                 _resize(st.img, self.resize_factor, st.next)) :
           st \in { AfterEnhance(self, image, env) } })

\* Configurations, images and environments.
Configs ==
    [enhance_contrast : BOOLEAN, denoise : BOOLEAN, resize_factor : { 5, 10, 20 },
     auto_rotate : BOOLEAN]
colour_data == << << 10, 20, 30 >>, << 40, 50, 60 >> >>
gray_data == << 7, 9 >>
InputImages ==
    { [kind |-> "ndarray", id |-> 0, shape |-> << 1, 2, 3 >>, data |-> colour_data,
       applied |-> << >>],
      [kind |-> "ndarray", id |-> 0, shape |-> << 1, 2 >>, data |-> gray_data,
       applied |-> << >>],
      [kind |-> "ndarray", id |-> 0, shape |-> << 2, 1, 3 >>, data |-> colour_data,
       applied |-> << >>],
      [kind |-> "pil", id |-> 0, shape |-> << 1, 2, 3 >>, data |-> colour_data],
      [kind |-> "pil", id |-> 0, shape |-> << 1, 2 >>, data |-> gray_data],
      [kind |-> "path", readable |-> TRUE, shape |-> << 1, 2, 3 >>, data |-> colour_data],
      [kind |-> "path", readable |-> FALSE],
      [kind |-> "other"] }
NoLines == [found |-> FALSE, layout |-> "", thetas |-> << >>]
Lines(layout, thetas) == [found |-> TRUE, layout |-> layout, thetas |-> thetas]
LinePool ==
    { NoLines, Lines("pairs", << 90 >>), Lines("pairs", << 5, 175, 6 >>),
      Lines("pairs", << 0, 1 >>), Lines("N12", << 5 >>) }
Envs ==
    [lines : LinePool, fails_at : { "none", "gray", "edges", "lines", "rotate" },
     denoise_fails : BOOLEAN]

\* ImagePreprocessor(...).preprocess(image)
PreprocessCall(self, image, env) ==
    /\ \E r \in { preprocess(self, image, env) } :
           pp' = [op |-> "preprocess", self |-> self, image |-> image, env |-> env,
                  loaded |-> Loaded(self, image), trace |-> r.trace,
                  raised |-> r.raised, err |-> r.err, img |-> r.img]
    /\ UNCHANGED << cfg, http, confidence_threshold, worker, rcall, earlier,
           ocr_engine, health, ecall >>
    /\ UNCHANGED vvars
    /\ UNCHANGED fvars

Preprocess ==
    /\ pp.op = "none"
    /\ \E self \in Configs, image \in InputImages, env \in Envs :
           PreprocessCall(self, image, env)

InitPreprocess == EngineInit(<< >>) /\ ExtractorInit(<< >>, << >>) /\ IdleInit

NextPreprocess == Preprocess

SpecPreprocess == InitPreprocess /\ [][NextPreprocess]_vars

(***************************************************************************)
(* Auto-rotation alone.  A page of text lines skewed by text_skew degrees  *)
(* gives the detector lines whose normals stand at 90 + text_skew degrees  *)
(* (90 for a horizontal line); other line sets are given as they are       *)
(* reported.                                                               *)
(***************************************************************************)
auto_rotate_only ==
    [enhance_contrast |-> FALSE, denoise |-> FALSE, resize_factor |-> 10,
     auto_rotate |-> TRUE]

NormalAngle(text_skew) == (90 + text_skew) % 180

\* The skews of the pages and the numbers of lines the detector finds on one.
TextSkews == { -5, -1, 0, 1, 5 }
LineCounts == { 1, 2, 3, 10, 12 }

\* What cv2.HoughLines returns: an array of shape (N, 1, 2) ("N12"), or the
\* (rho, theta) pairs the loop of _auto_rotate unpacks ("pairs").
Layouts == { "N12", "pairs" }

PageEnvs ==
    { [lines |-> Lines(layout, [ i \in 1..n |-> NormalAngle(text_skew) ]),
       fails_at |-> "none", denoise_fails |-> FALSE, text_skew |-> text_skew] :
      layout \in Layouts, n \in LineCounts, text_skew \in TextSkews }

OtherThetas ==
    { << 0 >>, << 1 >>, << 2 >>, << 178 >>, << 179 >>, << 91 >>, << 89 >>,
      << 1, 2 >>, << 0, 2 >>, << 5, 175, 6 >>, << 0, 1 >>, << 2, 178, 0 >>,
      << 0, 0, 0, 0, 0, 0, 5, 5, 5, 5, 5, 5, 5 >>,
      << 5, 5, 5, 5, 5, 5, 0, 0, 0, 0, 0, 0, 0 >> }
OtherEnvs ==
    { [lines |-> Lines(layout, thetas), fails_at |-> "none",
       denoise_fails |-> FALSE] :
      layout \in Layouts, thetas \in OtherThetas }
    \cup { [lines |-> NoLines, fails_at |-> "none", denoise_fails |-> FALSE] }

RotateImages == { image \in InputImages : image.kind \in { "ndarray", "pil" } }

AutoRotateOnly ==
    /\ pp.op = "none"
    /\ \E image \in RotateImages, env \in PageEnvs \cup OtherEnvs :
           PreprocessCall(auto_rotate_only, image, env)

NextAutoRotate == AutoRotateOnly

SpecAutoRotate == InitPreprocess /\ [][NextAutoRotate]_vars

(***************************************************************************)
(* The OCR engine (engine.py): extract_text preprocesses the image and     *)
(* hands the result to the recognizer, reader.readtext.  The preprocessor  *)
(* attribute is the set holding the engine's ImagePreprocessor, empty when *)
(* it is None.                                                             *)
(***************************************************************************)
\* The preprocessing section of the configuration.
config_preprocessing ==
    [enhance_contrast |-> TRUE, denoise |-> TRUE, resize_factor |-> 20,
     auto_rotate |-> TRUE]

\* OCREngine(use_preprocessing=...), its reader initialized.
OCREngineInit(use_preprocessing, threshold) ==
    [use_preprocessing |-> use_preprocessing,
     preprocessor |-> IF use_preprocessing THEN { config_preprocessing } ELSE { },
     confidence_threshold |-> threshold]

\* isinstance(image, str)
IsStr(image) == image.kind = "path"

\* `if self.preprocessor and not isinstance(image, str)`
PreprocessesFirst(self, image) == self.preprocessor # { } /\ ~IsStr(image)

\* processed_image of extract_text, and what readtext was handed: the array
\* preprocess returned, or the image argument itself.
OCREngine_extract_text(self, image, env) ==
    IF PreprocessesFirst(self, image)
    THEN Only({ [preprocessed |-> TRUE, raised |-> r.raised,
                 recognized |-> ~r.raised,
                 handed |-> IF r.raised THEN << >> ELSE << r.img >>] :
                r \in { preprocess(Only(self.preprocessor), image, env) } })
    ELSE [preprocessed |-> FALSE, raised |-> FALSE, recognized |-> TRUE,
          handed |-> << image >>]

EngineEnvs ==
    { [lines |-> lines, fails_at |-> fails_at, denoise_fails |-> denoise_fails] :
      lines \in { NoLines, Lines("N12", << 5 >>) },
      fails_at \in { "none", "gray" }, denoise_fails \in BOOLEAN }

\* The temporary files the endpoints write the uploads to.
TempPaths == { image \in InputImages : image.kind = "path" }

EngineFrame ==
    /\ UNCHANGED << cfg, http, confidence_threshold, worker, pp, rcall, earlier,
                    health >>
    /\ UNCHANGED vvars
    /\ UNCHANGED fvars

\* engine.extract_text(image), called on an engine by a program.
ExtractText(self, image, env) ==
    /\ ecall.op = "none"
    /\ \E out \in { OCREngine_extract_text(self, image, env) } :
           ecall' = [op |-> "extract_text", via |-> "call", self |-> self,
                     image |-> image, env |-> env, out |-> out]
    /\ UNCHANGED ocr_engine
    /\ EngineFrame

\* get_ocr_engine() with no other request running: the engine of the global
\* ocr_engine, constructed when the global is None.
get_ocr_engine ==
    IF ocr_engine.instance = 0
    THEN [instance |-> Len(ocr_engine.made) + 1,
          made |-> Append(ocr_engine.made,
                          OCREngineInit(TRUE, ocr_confidence_threshold))]
    ELSE ocr_engine

\* process_image_sync(image_path, confidence_threshold), run for a request of
\* /ocr/extract, /document/process or /fields/extract.
ProcessImageSync(image_path, threshold, env) ==
    /\ ecall.op = "none"
    /\ \E g \in { get_ocr_engine } :
         /\ ocr_engine' =
                [g EXCEPT !.made[g.instance].confidence_threshold = threshold]
         /\ \E self \in { [g.made[g.instance] EXCEPT
                              !.confidence_threshold = threshold] } :
            \E out \in { OCREngine_extract_text(self, image_path, env) } :
                ecall' = [op |-> "extract_text", via |-> "process_image_sync",
                          self |-> self, image |-> image_path, env |-> env,
                          out |-> out]
    /\ EngineFrame

InitEngine == EngineInit(<< >>) /\ ExtractorInit(<< >>, << >>) /\ IdleInit

NextEngine ==
    \/ \E use_preprocessing \in BOOLEAN, image \in InputImages, env \in EngineEnvs :
           ExtractText(OCREngineInit(use_preprocessing, ocr_confidence_threshold),
                       image, env)
    \/ \E image_path \in TempPaths, threshold \in Thresholds, env \in EngineEnvs :
           ProcessImageSync(image_path, threshold, env)

SpecEngine == InitEngine /\ [][NextEngine]_vars

(***************************************************************************)
(* The lazy global ocr_engine (routes.py).  get_ocr_engine runs on the     *)
(* threads of the pool, inside process_image_sync, and on the event loop,  *)
(* inside api_health_check; no lock is held.  Its steps are the test of    *)
(* the global, the construction, the assignment to the global and the read *)
(* of the global that is returned.  An engine is its index in              *)
(* ocr_engine.made, 0 standing for None.                                   *)
(***************************************************************************)
\* The threshold the concurrent requests ask for, and the number of health
\* requests the event loop serves.
RequestThresholds == { 50 }
MaxHealth == 1

\* `if ocr_engine is None`
IsNone(t) ==
    [t EXCEPT !.pc = IF ocr_engine.instance = 0 THEN "construct" ELSE "return"]

\* OCREngine(languages=['en'], gpu_enabled=False), which may raise.
Constructed(t, fails) ==
    IF fails THEN [t EXCEPT !.pc = "raised"]
    ELSE [t EXCEPT !.pc = "assign", !.made = Len(ocr_engine.made) + 1]
MadeAfter(fails) ==
    IF fails THEN ocr_engine
    ELSE [ocr_engine EXCEPT
            !.made = Append(@, OCREngineInit(TRUE, ocr_confidence_threshold))]

\* ocr_engine = <the engine constructed>
Assigned(t) == [t EXCEPT !.pc = "return"]
GlobalAfter(t) == [ocr_engine EXCEPT !.instance = t.made]

\* return ocr_engine
ReturnsGlobal(t) == [t EXCEPT !.pc = "use", !.engine = ocr_engine.instance]

SingletonFrame ==
    /\ UNCHANGED << cfg, http, confidence_threshold, pp, rcall, earlier, ecall >>
    /\ UNCHANGED vvars
    /\ UNCHANGED fvars

\* loop.run_in_executor(executor, process_image_sync, temp_path,
\* confidence_threshold): a thread of the pool starts process_image_sync.
RunInExecutor(threshold) ==
    /\ Len(worker) < MaxRequests
    /\ worker' = Append(worker, [pc |-> "is_none", confidence_threshold |-> threshold,
                                 made |-> 0, engine |-> 0])
    /\ UNCHANGED << ocr_engine, health >>
    /\ SingletonFrame

WorkerIsNone(w) ==
    /\ worker[w].pc = "is_none"
    /\ worker' = [worker EXCEPT ![w] = IsNone(worker[w])]
    /\ UNCHANGED << ocr_engine, health >>
    /\ SingletonFrame

WorkerConstruct(w, fails) ==
    /\ worker[w].pc = "construct"
    /\ worker' = [worker EXCEPT ![w] = Constructed(worker[w], fails)]
    /\ ocr_engine' = MadeAfter(fails)
    /\ UNCHANGED health
    /\ SingletonFrame

WorkerAssign(w) ==
    /\ worker[w].pc = "assign"
    /\ worker' = [worker EXCEPT ![w] = Assigned(worker[w])]
    /\ ocr_engine' = GlobalAfter(worker[w])
    /\ UNCHANGED health
    /\ SingletonFrame

WorkerReturn(w) ==
    /\ worker[w].pc = "return"
    /\ worker' = [worker EXCEPT ![w] = ReturnsGlobal(worker[w])]
    /\ UNCHANGED << ocr_engine, health >>
    /\ SingletonFrame

\* engine.confidence_threshold = confidence_threshold and
\* engine.extract_text(image_path), on the engine get_ocr_engine returned.
WorkerUse(w) ==
    /\ worker[w].pc = "use"
    /\ worker' = [worker EXCEPT ![w].pc = "done"]
    /\ ocr_engine' = [ocr_engine EXCEPT
                        !.made[worker[w].engine].confidence_threshold =
                            worker[w].confidence_threshold]
    /\ UNCHANGED health
    /\ SingletonFrame

\* GET /health: the event loop starts api_health_check.
HealthRequest ==
    /\ health.pc = "idle"
    /\ health.served < MaxHealth
    /\ health' = [pc |-> "is_none", served |-> health.served, made |-> 0,
                  engine |-> 0, reported |-> 0]
    /\ UNCHANGED << ocr_engine, worker >>
    /\ SingletonFrame

HealthIsNone ==
    /\ health.pc = "is_none"
    /\ health' = IsNone(health)
    /\ UNCHANGED << ocr_engine, worker >>
    /\ SingletonFrame

\* A construction that raises is answered 503 by the handler's except clause.
HealthConstruct(fails) ==
    /\ health.pc = "construct"
    /\ health' = IF fails
                 THEN [pc |-> "idle", served |-> health.served + 1]
                 ELSE Constructed(health, FALSE)
    /\ ocr_engine' = MadeAfter(fails)
    /\ UNCHANGED worker
    /\ SingletonFrame

HealthAssign ==
    /\ health.pc = "assign"
    /\ health' = Assigned(health)
    /\ ocr_engine' = GlobalAfter(health)
    /\ UNCHANGED worker
    /\ SingletonFrame

HealthReturn ==
    /\ health.pc = "return"
    /\ health' = ReturnsGlobal(health)
    /\ UNCHANGED << ocr_engine, worker >>
    /\ SingletonFrame

\* The response: "confidence_threshold": engine.confidence_threshold
HealthRespond ==
    /\ health.pc = "use"
    /\ health' = [pc |-> "idle", served |-> health.served + 1,
                  engine |-> health.engine,
                  reported |-> ocr_engine.made[health.engine].confidence_threshold]
    /\ UNCHANGED << ocr_engine, worker >>
    /\ SingletonFrame

InitSingleton == EngineInit(<< >>) /\ ExtractorInit(<< >>, << >>) /\ IdleInit

NextSingleton ==
    \/ \E threshold \in RequestThresholds : RunInExecutor(threshold)
    \/ \E w \in 1..Len(worker) : WorkerIsNone(w)
    \/ \E w \in 1..Len(worker), fails \in BOOLEAN : WorkerConstruct(w, fails)
    \/ \E w \in 1..Len(worker) : WorkerAssign(w)
    \/ \E w \in 1..Len(worker) : WorkerReturn(w)
    \/ \E w \in 1..Len(worker) : WorkerUse(w)
    \/ HealthRequest
    \/ HealthIsNone
    \/ \E fails \in BOOLEAN : HealthConstruct(fails)
    \/ HealthAssign
    \/ HealthReturn
    \/ HealthRespond

SpecSingleton == InitSingleton /\ [][NextSingleton]_vars

(***************************************************************************)
(* Document types: validate_document_type builds a fresh engine for the    *)
(* type and validates the text with it.                                    *)
(***************************************************************************)
t_aadhaar == << "a", "a", "d", "h", "a", "a", "r" >>
t_pan == << "p", "a", "n" >>
t_passport == << "p", "a", "s", "s", "p", "o", "r", "t" >>
t_driving_license == << "d", "r", "i", "v", "i", "n", "g", "_", "l", "i", "c", "e", "n", "s", "e" >>

PassportNumberRule ==
    PatternValidationRule(passport_number_pattern, "passport_number", TRUE)

\* doc_validator, had the method gone on with the engine it is called on.
doc_validator_self(self_rules) == self_rules

\* doc_validator = TextValidator(): an engine of its own with the default
\* rules, whatever rules self holds.
doc_validator(self_rules) == TextValidatorInit(<< >>)

\* The rules of the document-specific engine, the type compared as given.
validate_document_type_exact(self_rules, text, document_type) ==
    Only({ validate_text(rs, text, NoNames) :
           rs \in { IF document_type = t_aadhaar
                    THEN add_rule(add_rule(doc_validator(self_rules),
                                           AadhaarValidationRule), DateValidationRule)
                    ELSE IF document_type = t_pan
                    THEN add_rule(doc_validator(self_rules), PANValidationRule)
                    ELSE IF document_type \in { t_passport, t_driving_license }
                    THEN add_rule(add_rule(doc_validator(self_rules),
                                           DateValidationRule), PassportNumberRule)
                    ELSE doc_validator(self_rules) } })

\* self.validate_document_type(text, document_type)
validate_document_type(self_rules, text, document_type) ==
    Only({ validate_text(rs, text, NoNames) :
           rs \in { IF StrLower(document_type) = t_aadhaar
                    THEN add_rule(add_rule(doc_validator(self_rules),
                                           AadhaarValidationRule), DateValidationRule)
                    ELSE IF StrLower(document_type) = t_pan
                    THEN add_rule(doc_validator(self_rules), PANValidationRule)
                    ELSE IF StrLower(document_type) \in { t_passport, t_driving_license }
                    THEN add_rule(add_rule(doc_validator(self_rules),
                                           DateValidationRule), PassportNumberRule)
                    ELSE doc_validator(self_rules) } })

\* document_type and text arguments.
DocTypes ==
    { << "a", "a", "d", "h", "a", "a", "r" >>,
      << "A", "a", "d", "H", "a", "a", "r" >>,
      << "p", "a", "n" >>,
      << "P", "A", "N" >>,
      << "p", "a", "s", "s", "p", "o", "r", "t" >>,
      << "P", "a", "s", "s", "p", "o", "r", "t" >>,
      << "d", "r", "i", "v", "i", "n", "g", "_", "l", "i", "c", "e", "n", "s", "e" >>,
      << "D", "r", "i", "v", "i", "n", "g", "_", "L", "i", "c", "e", "n", "s", "e" >>,
      << "v", "o", "t", "e", "r" >>,
      << "a", "a", "d", "h", "a", "a", "r", " " >> }
DocTexts ==
    { << "1", "2", "3", "4", " ", "5", "6", "7", "8", " ", "9", "0", "1", "2", " ", "1", "/", "2", "/", "9", "9" >>,
      << "A", "B", "C", "D", "E", "1", "2", "3", "4", "F" >>,
      << "A", "1", "2", "3", "4", "5", "6", "7", " ", "1", "/", "2", "/", "2", "0", "2", "0" >>,
      << "a", "1", "2", "3", "4", "5", "6", "7" >>,
      << "a", "b" >>,
      << "x" >>,
      << " ", "\t" >>,
      << "3", "1", "/", "0", "2", "/", "2", "0", "2", "0" >>,
      << "a", "b", "c", "d", "e", "1", "2", "3", "4", "f", " ", "1", "-", "2", "-", "9", "9" >>,
      << "1", "2", "3", "4", " ", "5", "6", "7", "8", " ", "9", "0", "1" >>,
      << "A", "B", "1", "2", "3", "4", "5", "6", "7" >>,
      << "2", "0", "2", "0", "/", "2", "/", "2", "9", " ", "Z", "7", "6", "5", "4", "3", "2", "1" >> }

ValidateDocumentType(text, document_type) ==
    /\ \E v \in { validate_document_type(rules, text, document_type) } :
        /\ report' = v.report
        /\ vcall' = [op |-> "validate_document_type", text |-> text,
                     rule_names |-> NoNames, evaluated |-> v.evaluated,
                     origin |-> v.origin, document_type |-> document_type]
        /\ Logged("validate_document_type", text, NoNames, document_type, v.report)
    /\ ret' = NoRet
    /\ UNCHANGED << rules, refRules >>
    /\ UNCHANGED fvars
    /\ UNCHANGED yvars

\* One call on an engine that has not been called yet.
NextDocument ==
    /\ vcall.op = "none"
    /\ \E text \in DocTexts, document_type \in DocTypes :
           ValidateDocumentType(text, document_type)

SpecDocument == Init /\ [][NextDocument]_vars

(***************************************************************************)
(* A session on one engine: add_rule, remove_rule, validate_text and       *)
(* validate_document_type in any order, with a log of the first validate   *)
(* call and of the kinds of call made after it.                            *)
(***************************************************************************)
SessionRules == { PatternValidationRule(digits_pattern, "digits", TRUE) }
SessionRuleNames == { "length", "digits" }
SessionTexts == { << "a", "b" >>, << "1", "/", "2", "/", "9", "9" >> }
SessionFilters == { NoNames, Names(<< "digits", "custom" >>) }
SessionDocTypes == { t_aadhaar, << "v", "o", "t", "e", "r" >> }

InitSession ==
    /\ EngineInit(<< >>)
    /\ ExtractorInit(<< >>, << >>)
    /\ cfg = NoCfg
    /\ http = NoHttp
    /\ confidence_threshold = ocr_confidence_threshold
    /\ worker = NoWorkers
    /\ pp = NoPp
    /\ rcall = NoRuleCall
    /\ earlier = EmptyLog
    /\ ocr_engine = NoEngine
    /\ health = NoHealth
    /\ ecall = NoEngineCall

NextSession ==
    \/ \E rule \in SessionRules : AddRule(rule)
    \/ \E rule_name \in SessionRuleNames : RemoveRule(rule_name)
    \/ \E text \in SessionTexts, rule_names \in SessionFilters :
           ValidateText(text, rule_names)
    \/ \E text \in SessionTexts, document_type \in SessionDocTypes :
           ValidateDocumentType(text, document_type)

SpecSession == InitSession /\ [][NextSession]_vars

(***************************************************************************)
(* A rule called on its own: rule.validate(text).  The texts are the       *)
(* concatenations of up to MaxTokens pieces, and some written out.         *)
(***************************************************************************)
MaxTokens == 5

RECURSIVE Concat(_)
Concat(pieces) == IF pieces = << >> THEN << >> ELSE Head(pieces) \o Concat(Tail(pieces))

TokenTexts(tokens, n) == { Concat(pieces) : pieces \in SeqsUpTo(tokens, n) }

AadhaarTokens == { << "1", "2", "3", "4" >>, << "1", "2", "3" >>, << " " >>, << "x" >> }
AadhaarTexts ==
    TokenTexts(AadhaarTokens, MaxTokens)
    \cup { << "1", "2", "3", "4", " ", "5", "6", "7", "8", " ", "9", "0", "1", "2" >>,
           << "1", "2", "3", "4", " ", "5", "6", "7", "8", " ", "9", "0", "1" >>,
           << "1", "2", "3", "4", "\t", "1", "2", "3", "4", "\n", "1", "2", "3", "4" >>,
           << "i", "d", ":", "1", "2", "3", "4", " ", "1", "2", "3", "4", " ", "1", "2", "3", "4", "." >>,
           << "1", "2", "3", "4", "-", "1", "2", "3", "4", "-", "1", "2", "3", "4" >>,
           << "1", "2", "3", "4", " ", " ", "1", "2", "3", "4", " ", "1", "2", "3", "4" >>,
           << "x", "1", "2", "3", "4", " ", "1", "2", "3", "4", " ", "1", "2", "3", "4" >>,
           << "1", "2", "3", "4", " ", "1", "2", "3", "4", " ", "1", "2", "3", "4", "_" >> }

PanTokens == { << "A", "B", "C", "D", "E" >>, << "1", "2", "3", "4" >>, << "F" >>, << " " >>, << "a", "b", "c", "d", "e" >> }
PanTexts ==
    TokenTexts(PanTokens, MaxTokens - 1)
    \cup { << "A", "B", "C", "D", "E", "1", "2", "3", "4", "F" >>,
           << "A", "B", "C", "D", "E", "1", "2", "3", "4" >>,
           << "p", "a", "n", ":", "a", "b", "c", "d", "e", "1", "2", "3", "4", "f", "." >>,
           << "A", "B", "C", "D", "E", "1", "2", "3", "4", "F", "_" >>,
           << "A", "B", "C", "D", "E", " ", "1", "2", "3", "4", "F" >>,
           << "A", "b", "C", "d", "E", "1", "2", "3", "4", "f" >>,
           << "A", "B", "C", "D", "E", "F", "1", "2", "3", "4", "F" >>,
           << "A", "B", "C", "D", "E", "1", "2", "3", "4", "5", "F" >> }

RuleCall(rule, text) ==
    /\ rcall.op = "none"
    /\ rcall' = [op |-> "validate", rule |-> rule.name, text |-> text,
                 outcome |-> RuleValidate(rule, text)]
    /\ UNCHANGED << cfg, http, confidence_threshold, worker, pp, earlier,
           ocr_engine, health, ecall >>
    /\ UNCHANGED vvars
    /\ UNCHANGED fvars

InitRule == EngineInit(<< >>) /\ ExtractorInit(<< >>, << >>) /\ IdleInit

NextAadhaar == \E text \in AadhaarTexts : RuleCall(AadhaarValidationRule, text)
SpecAadhaar == InitRule /\ [][NextAadhaar]_vars

NextPan == \E text \in PanTexts : RuleCall(PANValidationRule, text)
SpecPan == InitRule /\ [][NextPan]_vars

\* The date rule called on its own.  The texts are three digit fields joined
\* by one separator, four fields joined by "/", and some written out.
DateFirstFields == { << "0" >>, << "1" >>, << "2", "9" >>, << "3", "1" >>, << "2", "0", "0", "0" >>, << "1", "9", "9", "0" >> }
DateMiddleFields == { << "2" >>, << "0", "2" >>, << "1", "2" >>, << "1", "3" >> }
DateLastFields == { << "1" >>, << "3", "1" >>, << "9", "9" >>, << "6", "8" >>, << "1", "9", "0", "0" >>, << "2", "0", "0", "0" >>, << "0", "0", "0", "0" >> }
DateRunFields == { << "3", "1" >>, << "2" >>, << "1", "2" >>, << "1", "1" >> }
date_example == << "D", "a", "t", "e", ":", " ", "1", "5", "/", "0", "8", "/", "1", "9", "9", "0" >>
DateTexts ==
    { a \o sep \o b \o sep \o c :
          a \in DateFirstFields, b \in DateMiddleFields, c \in DateLastFields,
          sep \in { << "/" >>, << "-" >> } }
    \cup { a \o << "/" >> \o b \o << "/" >> \o c \o << "/" >> \o d :
               a \in DateRunFields, b \in DateRunFields, c \in DateRunFields,
               d \in DateRunFields }
    \cup { date_example,
           << "1", "5", "-", "0", "8", "/", "1", "9", "9", "0" >>,
           << "x", "1", "/", "2", "/", "2", "0", "0", "0" >>,
           << "1", "/", "2", "/", "2", "0", "0", "0", "x" >>,
           << "0", "9", "9", "9", "/", "0", "1", "/", "0", "1" >>,
           << "1", "/", "2", "/", "2", "0", "0", "3", "/", "4", "/", "5" >>,
           << "3", "1", "/", "0", "2", "/", "2", "0", "0", "0", "-", "0", "1", "-", "0", "2" >>,
           << "n", "o", " ", "d", "a", "t", "e" >>,
           << "1", "/", "1", "/", "6", "9", " ", "1", "/", "1", "/", "7", "0" >> }

NextDate == \E text \in DateTexts : RuleCall(DateValidationRule, text)
SpecDate == InitRule /\ [][NextDate]_vars

(***************************************************************************)
(* Properties of the rule engine                                           *)
(***************************************************************************)
Validated == vcall.op = "validate_text"

\* Every character of the text is whitespace (its stripped length is 0).
AllSpace(text) == \A i \in 1..Len(text) : text[i] \in Space

\* The entries of rule_results that report a failure.
FailingEntries ==
    { j \in 1..Len(report.rule_results) :
        /\ "valid" \in DOMAIN report.rule_results[j]
        /\ ~report.rule_results[j].valid }

\* The engine rules the filter names, in rule order; all of them without filter.
AllRules == [ i \in 1..Len(rules) |-> i ]

Selected(rule_names) ==
    SelectSeq(AllRules, LAMBDA i : NameIn(rules[i].name, rule_names))

\* C1: the report of validate_text satisfies
\* rules_passed + rules_failed == len(rule_results), for every rule list and
\* text, also with a custom rule that raises or returns no 'valid' entry.
C1_CountsMatchResults ==
    Validated =>
        report.rules_passed + report.rules_failed = Len(report.rule_results)

\* C2 as stated: for every rule set and every text, blank text included, the
\* report has valid == true iff rules_failed == 0.
C2_ValidIffNoFailures ==
    Validated => (report.valid <=> report.rules_failed = 0)

\* C2 amended: on non-blank text valid == true iff rules_failed == 0; on blank
\* text valid == false although rules_failed == 0.
C2_ValidIffNoFailuresNonBlank ==
    Validated =>
        IF AllSpace(vcall.text)
        THEN ~report.valid /\ report.rules_failed = 0
        ELSE report.valid <=> report.rules_failed = 0

C2_Witness ==
    /\ Validated
    /\ ~AllSpace(vcall.text)
    /\ report.rules_failed = 0
    /\ report.rules_passed = 0
    /\ report.valid
    /\ Len(rules) > 0

\* C3: for a text whose stripped length is 0, whatever the rule list and the
\* rule_names filter, validate_text returns valid == false, rules_passed == 0,
\* rules_failed == 0 and an empty rule_results, and evaluates no rule.
C3_BlankShortCircuit ==
    (Validated /\ AllSpace(vcall.text)) =>
        /\ report.valid = FALSE
        /\ report.rules_passed = 0
        /\ report.rules_failed = 0
        /\ report.rule_results = << >>
        /\ vcall.evaluated = << >>

C3_Witness ==
    /\ Validated
    /\ vcall.text # << >>
    /\ AllSpace(vcall.text)
    /\ Truthy(vcall.rule_names)
    /\ \E i \in 1..Len(rules) : NameIn(rules[i].name, vcall.rule_names)
    /\ report = BlankReport

\* C4: a selected rule that raises while validate_text evaluates it on
\* non-blank text does not abort the call: it contributes exactly one
\* rule_results entry, in rule order, with valid == false and a message
\* carrying the error text; rules_failed counts every failing entry once; and
\* every selected rule, those after it included, is evaluated.
C4_RaisingRuleRecorded ==
    (Validated /\ ~AllSpace(vcall.text)) =>
        LET sel == RulesToApply(rules, vcall.rule_names)
            rr == report.rule_results
        IN  /\ vcall.evaluated = sel
            /\ Len(vcall.origin) = Len(rr)
            /\ \A j \in 1..(Len(rr) - 1) : vcall.origin[j] <= vcall.origin[j + 1]
            /\ report.rules_failed = Cardinality(FailingEntries)
            /\ \A k \in 1..Len(sel) :
                  rules[sel[k]].kind = "base" =>
                     /\ Cardinality({ j \in 1..Len(rr) : vcall.origin[j] = sel[k] }) = 1
                     /\ \A j \in 1..Len(rr) :
                           vcall.origin[j] = sel[k] =>
                              /\ rr[j].rule = rules[sel[k]].name
                              /\ rr[j].valid = FALSE
                              /\ rr[j].message =
                                    "Rule execution failed: "
                                    \o "Subclasses must implement validate method"

\* A raising rule was evaluated and a rule after it was evaluated too.
C4_Witness ==
    /\ Validated
    /\ \E k \in 1..(Len(vcall.evaluated) - 1) :
          /\ rules[vcall.evaluated[k]].kind = "base"
          /\ rules[vcall.evaluated[k + 1]].kind = "pattern"
    /\ report.rules_failed = 1
    /\ report.rules_passed = 2

\* C5: on non-blank text with a rule_names filter (any list, the empty list
\* included) rule_results holds exactly one result for each engine rule whose
\* name is in rule_names, in rule order, and no other rule is evaluated; with
\* no filter every rule is evaluated, in rule order.
C5_FilterSelectsNamedRules ==
    (Validated /\ ~AllSpace(vcall.text)) =>
        LET want == IF vcall.rule_names.given THEN Selected(vcall.rule_names)
                    ELSE AllRules
        IN  /\ vcall.evaluated = want
            /\ vcall.origin = want

\* C6: after any sequence of add_rule and remove_rule calls the rule list is
\* the reference list (append on add, delete only the first entry of the name
\* on remove, the rest in order), and remove_rule returns true iff an entry
\* of that name existed; on a miss the list is unchanged.
C6_RulesMatchReference ==
    /\ rules = refRules
    /\ ret.op = "remove_rule" => ret.value = ret.ref

\* A removal that hit while another rule of the same name stays in the list.
C6_Witness ==
    /\ ret.op = "remove_rule"
    /\ ret.value
    /\ \E i \in 1..Len(rules) : rules[i].name = ret.arg
    /\ Len(rules) >= 2

(***************************************************************************)
(* Properties of the field extractor                                       *)
(***************************************************************************)
Extracted == fcall.op = "extract_fields"

\* The resolved FieldDefinition of the fi-th field definition of the call.
Resolved(fi) == ResolveField(field_definitions[fi])

\* The calls of _extract_value_after_keyword made for the fi-th field, and
\* those among them that yielded a value.
CallLog(fi) == fcall.calls[fi]

Yielding(fi) == { j \in 1..Len(CallLog(fi)) : TruthyStr(CallLog(fi)[j].value) }

\* The yielding call of the highest confidence, the first of them in scan
\* order when several share it.
BestCall(fi) ==
    CHOOSE j \in Yielding(fi) :
        \A k \in Yielding(fi) :
            \/ CallLog(fi)[k].confidence < CallLog(fi)[j].confidence
            \/ CallLog(fi)[k].confidence = CallLog(fi)[j].confidence /\ j <= k

\* C7: for one field, when blocks contain a keyword of the field and yield
\* values, _extract_single_field returns the value, confidence, source_text
\* and bbox of the block of strictly highest confidence, and of the first
\* such block in scan order when the highest confidence is shared.
C7_BestConfidenceFirstOnTie ==
    Extracted =>
        \A fi \in 1..Len(field_definitions) :
            Yielding(fi) # {} =>
                LET c == CallLog(fi)[BestCall(fi)]
                IN  fcall.returned[fi] =
                        ExtractedField(field_definitions[fi].name, c.value,
                                       c.confidence, text_blocks[c.block].text,
                                       text_blocks[c.block].bbox)

\* Two blocks yield different values of the same confidence for one field, and
\* the first block's value is the one returned.
C7_Witness ==
    /\ Extracted
    /\ \E fi \in 1..Len(field_definitions) :
          /\ Cardinality(Yielding(fi)) = 2
          /\ CallLog(fi)[1].value # CallLog(fi)[2].value
          /\ CallLog(fi)[1].confidence = CallLog(fi)[2].confidence
          /\ fcall.returned[fi] # NoField
          /\ fcall.returned[fi].value = CallLog(fi)[1].value
          /\ fcall.returned[fi].bbox = text_blocks[1].bbox
          /\ text_blocks[1].bbox # text_blocks[2].bbox

\* Block bi contains a keyword of the fi-th field, case-insensitively.
HasKeyword(fi, bi) ==
    \E k \in 1..Len(Resolved(fi).keywords) :
        Contains(StrLower(text_blocks[bi].text), StrLower(Resolved(fi).keywords[k]))

\* Some block contains a keyword of the fi-th field and yields a value.
HasValue(fi) ==
    \E j \in Yielding(fi) : HasKeyword(fi, CallLog(fi)[j].block)

\* The field definitions that have such a block, in order.
FieldsWithValue ==
    SelectSeq([ fi \in 1..Len(field_definitions) |-> fi ], LAMBDA fi : HasValue(fi))

\* C8: extract_fields returns, in field-definition order, at most one
\* ExtractedField per field definition; a definition has an entry iff some
\* block contains one of its keywords and yields a value, a definition with no
\* such block is omitted, and every returned value is a non-empty string.
C8_OneEntryPerFieldWithValue ==
    Extracted =>
        /\ Len(fcall.calls) = Len(field_definitions)
        /\ Len(extracted_fields) = Len(FieldsWithValue)
        /\ \A k \in 1..Len(extracted_fields) :
              /\ extracted_fields[k] = fcall.returned[FieldsWithValue[k]]
              /\ extracted_fields[k].field_name =
                    field_definitions[FieldsWithValue[k]].name
              /\ extracted_fields[k].value # None
              /\ extracted_fields[k].value # << >>
              /\ \A i \in 1..Len(extracted_fields[k].value) :
                    extracted_fields[k].value[i] \in STRING

\* Of two field definitions the first is omitted, although a block contains
\* its keyword, and the second has its entry.
C8_Witness ==
    /\ Extracted
    /\ Len(field_definitions) = 2
    /\ \E bi \in 1..Len(text_blocks) : HasKeyword(1, bi)
    /\ ~HasValue(1)
    /\ HasValue(2)
    /\ Len(extracted_fields) = 1
    /\ extracted_fields[1].field_name = field_definitions[2].name

\* The first keyword of the fi-th field that block bi contains.
FirstKeyword(fi, bi) ==
    Resolved(fi).keywords[
        CHOOSE k \in 1..Len(Resolved(fi).keywords) :
            /\ Contains(StrLower(text_blocks[bi].text),
                        StrLower(Resolved(fi).keywords[k]))
            /\ \A h \in 1..(k - 1) :
                  ~Contains(StrLower(text_blocks[bi].text),
                            StrLower(Resolved(fi).keywords[h]))]

\* C9: for a field that has a pattern, whenever the pattern matches the
\* candidate region (case-insensitively) the block yields a value with
\* confidence 0.9: the text of the first capture group when the pattern has
\* capture groups, otherwise the whole match.
C9_PatternMatchYieldsValue ==
    Extracted =>
        \A fi \in 1..Len(field_definitions) :
            \A j \in 1..Len(CallLog(fi)) :
                LET bi == CallLog(fi)[j].block
                    region == AfterKeyword(text_blocks[bi].text, FirstKeyword(fi, bi))
                    m == Search(Compile(Resolved(fi).pattern), region, TRUE)
                IN  (Resolved(fi).pattern # NoPattern /\ m.ok) =>
                        /\ CallLog(fi)[j].confidence = 90
                        /\ TruthyStr(CallLog(fi)[j].value)
                        /\ CallLog(fi)[j].value =
                              IF HasGroups(Resolved(fi).pattern)
                              THEN Slice(region, m.g1[1], m.g1[2])
                              ELSE Slice(region, m.start, m.end)

\* The confidence the resolved field definition fixes.
DefinitionConfidence(field) ==
    IF field.pattern # NoPattern THEN 90
    ELSE CASE field.data_type = "phone" -> 90
           [] field.data_type = "email" -> 95
           [] field.data_type = "number" -> 80
           [] field.data_type = "date" -> 85
           [] OTHER -> 70

\* C10: the confidence of an extracted value is determined by the resolved
\* field definition alone (0.9 with a pattern, otherwise 0.9 phone, 0.95
\* email, 0.8 number, 0.85 date, 0.7 text), so all value-yielding blocks of
\* one field carry the same confidence, and so does the returned field.
C10_ConfidenceFixedByDefinition ==
    Extracted =>
        \A fi \in 1..Len(field_definitions) :
            /\ \A j \in Yielding(fi) :
                  CallLog(fi)[j].confidence = DefinitionConfidence(Resolved(fi))
            /\ fcall.returned[fi] # NoField =>
                  fcall.returned[fi].confidence = DefinitionConfidence(Resolved(fi))

\* Blocks of different length and position yield values for a field without
\* pattern and for a field with one, each at its definition's confidence.
C10_Witness ==
    /\ Extracted
    /\ Len(field_definitions) = 2
    /\ Resolved(1).pattern = NoPattern
    /\ Resolved(2).pattern # NoPattern
    /\ Cardinality(Yielding(1)) = 2
    /\ Len(text_blocks[1].text) # Len(text_blocks[2].text)
    /\ Yielding(2) # {}
    /\ Len(extracted_fields) = 2
    /\ extracted_fields[1].confidence = DefinitionConfidence(Resolved(1))
    /\ extracted_fields[2].confidence = 90

(***************************************************************************)
(* Properties of error reporting                                           *)
(***************************************************************************)
\* C11: an invalid regular expression given as the pattern of a custom rule or
\* of a field definition is reported when the rule or the field definition is
\* constructed, never later while text is evaluated, and whether or not any
\* text matches the field's keywords.
C11_InvalidRegexFailsAtConstruction ==
    (cfg.op # "none" /\ cfg.invalid) => cfg.raised_at = "construction"

\* C12: a request to an upload endpoint whose file is not an image, or a
\* /fields/extract request whose field-definition string is not valid JSON,
\* is answered with a 4xx status (400) and never with a 5xx status.
C12_BadUploadAnsweredWith400 ==
    (/\ http.endpoint # "none"
     /\ \/ ~IsImage(http.file)
        \/ http.endpoint = "/fields/extract" /\ JsonLoadsRaises(http.fields))
    => http.status = 400

(***************************************************************************)
(* Properties of the worker pool                                           *)
(***************************************************************************)
\* C13: when several extraction requests with different confidence thresholds
\* run concurrently on the worker pool, under every interleaving the blocks
\* returned for a request are exactly the detections of that request's image
\* whose confidence is at least that request's own threshold.
C13_BlocksFilteredByOwnThreshold ==
    \A w \in 1..Len(worker) :
        worker[w].pc = "done" =>
            worker[w].blocks = Accepted(readtext(worker[w].image),
                                        worker[w].confidence_threshold)

(***************************************************************************)
(* Properties of the preprocessing pipeline                                *)
(***************************************************************************)
\* The stages a configuration enables, in the pipeline's order.
PipelineOrder == << "auto_rotate", "denoise", "enhance_contrast", "resize" >>
Enabled(self, stage) ==
    CASE stage = "auto_rotate" -> self.auto_rotate
      [] stage = "denoise" -> self.denoise
      [] stage = "enhance_contrast" -> self.enhance_contrast
      [] stage = "resize" -> self.resize_factor # 10
EnabledStages(self) ==
    LET Keep(stage) == Enabled(self, stage)
    IN  SelectSeq(PipelineOrder, Keep)

\* The stages of the recorded call, in the order of their invocation.
Invoked == [ k \in 1..Len(pp.trace) |-> pp.trace[k].stage ]

\* Every invoked stage got the image the previous one produced (the first
\* one the loaded image).
Chained ==
    \A k \in 1..Len(pp.trace) :
        pp.trace[k].input = IF k = 1 THEN pp.loaded.img ELSE pp.trace[k - 1].output

\* The image a returning call hands back is the last stage's output.
LastOutput ==
    IF Len(pp.trace) = 0 THEN pp.loaded.img ELSE pp.trace[Len(pp.trace)].output

\* C14 as stated: for every configuration preprocess invokes exactly the
\* enabled stages, each at most once, in the order auto-rotate, denoise,
\* enhance-contrast, resize, each receiving the previous stage's output; a
\* disabled stage is never invoked and does not alter the image.
C14_ExactlyEnabledStages ==
    pp.op = "preprocess" =>
        /\ Invoked = EnabledStages(pp.self)
        /\ Chained

\* C14, amended: preprocess invokes the enabled stages in the fixed order,
\* each at most once and each receiving the previous stage's output, until a
\* stage raises; a call that returns has invoked exactly the enabled stages
\* and returns the last one's output, a call that raises has invoked the
\* enabled stages up to the failing one only; a disabled stage is never
\* invoked and does not alter the image.
C14_EnabledStagesInOrderUntilFailure ==
    pp.op = "preprocess" =>
        /\ Len(Invoked) <= Len(EnabledStages(pp.self))
        /\ Invoked = SubSeq(EnabledStages(pp.self), 1, Len(Invoked))
        /\ Chained
        /\ \A k \in 1..(Len(pp.trace) - 1) : ~pp.trace[k].raised
        /\ ~pp.raised => /\ Invoked = EnabledStages(pp.self)
                         /\ pp.img = LastOutput
        /\ pp.raised => \/ pp.loaded.raised /\ pp.trace = << >>
                        \/ Len(pp.trace) > 0 /\ pp.trace[Len(pp.trace)].raised

\* A returning call that rotated the image, skipped the disabled denoise
\* stage and went on with contrast enhancement and resizing.
C14_Witness ==
    /\ pp.op = "preprocess"
    /\ ~pp.raised
    /\ Invoked = << "auto_rotate", "enhance_contrast", "resize" >>
    /\ pp.trace[1].output # pp.trace[1].input

\* C15: if the denoise stage fails, preprocess skips denoising, passes the
\* image unmodified to the remaining enabled stages and returns an image; the
\* failure is never propagated to the caller.
C15_DenoiseFailureRecovered ==
    (/\ pp.op = "preprocess"
     /\ \E k \in 1..Len(pp.trace) :
            pp.trace[k].stage = "denoise" /\ pp.trace[k].raised)
    => ~pp.raised

\* The heuristic of the recorded call failed at one of its steps.
AutoRotateFailed ==
    /\ pp.op = "preprocess"
    /\ pp.self.auto_rotate
    /\ ~pp.loaded.raised
    /\ \/ Len(pp.loaded.img.shape) # 3
       \/ pp.env.fails_at \in { "gray", "edges", "lines" }
       \/ pp.env.lines.found /\ pp.env.lines.layout = "N12"
       \/ /\ pp.env.fails_at = "rotate"
          /\ pp.env.lines.found
          /\ Abs(Median2(Angles(pp.env.lines.thetas))) > 2

\* C16: if any step of the auto-rotate heuristic fails, _auto_rotate returns
\* its input image unrotated and unmodified and preprocess goes on with the
\* remaining enabled stages: the failure is not raised, the next enabled
\* stage receives the unrotated image, and with no further stage enabled the
\* unrotated image is returned.
C16_AutoRotateFailureFallsBack ==
    AutoRotateFailed =>
        /\ Len(pp.trace) >= 1
        /\ pp.trace[1].stage = "auto_rotate"
        /\ ~pp.trace[1].raised
        /\ pp.trace[1].output = pp.loaded.img
        /\ IF Len(EnabledStages(pp.self)) > 1
           THEN /\ Len(pp.trace) >= 2
                /\ pp.trace[2].stage = EnabledStages(pp.self)[2]
                /\ pp.trace[2].input = pp.loaded.img
           ELSE ~pp.raised /\ pp.img = pp.loaded.img

\* The rotation itself fails, and denoising runs on the unrotated image.
C16_Witness ==
    /\ AutoRotateFailed
    /\ pp.env.fails_at = "rotate"
    /\ Len(pp.loaded.img.shape) = 3
    /\ pp.env.lines.layout = "pairs"
    /\ Len(pp.trace) >= 2
    /\ pp.trace[2].stage = "denoise"
    /\ ~pp.raised

\* C17: with resize_factor == 1.0 and all flags false, preprocess returns an
\* image with the shape and the pixel values of its input, for every input
\* image, and the result is a separate copy: not the input object.
C17_IdentityWhenAllOff ==
    (/\ pp.op = "preprocess"
     /\ pp.self = [enhance_contrast |-> FALSE, denoise |-> FALSE,
                   resize_factor |-> 10, auto_rotate |-> FALSE]
     /\ pp.image.kind \in { "ndarray", "pil" })
    => /\ ~pp.raised
       /\ pp.img.shape = pp.image.shape
       /\ pp.img.data = pp.image.data
       /\ pp.img.applied = << >>
       /\ pp.img.id # pp.image.id

(***************************************************************************)
(* Properties of the document rules                                        *)
(***************************************************************************)
\* Two type names are the same up to the case of their letters.
SameIgnoringCase(a, b) ==
    Len(a) = Len(b) /\ \A i \in 1..Len(a) : LowerCh(a[i]) = LowerCh(b[i])

\* The rules the claim lists for a document type, after the two defaults.
ExpectedDocumentRules(document_type) ==
    << "length", "characters" >>
    \o (IF SameIgnoringCase(document_type, t_aadhaar) THEN << "aadhaar", "date" >>
        ELSE IF SameIgnoringCase(document_type, t_pan) THEN << "pan" >>
        ELSE IF \/ SameIgnoringCase(document_type, t_passport)
                \/ SameIgnoringCase(document_type, t_driving_license)
             THEN << "date", "passport_number" >>
        ELSE << >>)

\* The text holds one letter followed by seven digits between word boundaries.
IsPassportForm(text) ==
    \E i \in 0..(Len(text) - 8) :
        /\ AtWordBoundary(text, i)
        /\ AtWordBoundary(text, i + 8)
        /\ text[i + 1] \in Upper \cup Lower
        /\ \A k \in 2..8 : text[i + k] \in Digit

\* C18: for non-blank text validate_document_type evaluates a fresh engine
\* whose rule_results are, in order, length, characters and then the rules of
\* the document type (aadhaar and date; pan; date and passport_number, which
\* asks for one letter and seven digits; nothing for any other type), the
\* type compared case-insensitively, whatever rules the engine it is called
\* on holds.
C18_DocumentRulesByType ==
    (vcall.op = "validate_document_type" /\ ~AllSpace(vcall.text)) =>
        /\ [ k \in 1..Len(report.rule_results) |-> report.rule_results[k].rule ]
               = ExpectedDocumentRules(vcall.document_type)
        /\ \A k \in 1..Len(report.rule_results) :
               report.rule_results[k].rule = "passport_number" =>
                   (report.rule_results[k].valid <=> IsPassportForm(vcall.text))

\* A passport validated under a type name in mixed case, on an engine that
\* holds a custom rule.
C18_Witness ==
    /\ vcall.op = "validate_document_type"
    /\ vcall.document_type = << "P", "a", "s", "s", "p", "o", "r", "t" >>
    /\ Len(rules) = 3
    /\ Len(report.rule_results) = 4
    /\ report.rule_results[4].rule = "passport_number"
    /\ report.rule_results[4].valid

\* The text holds three groups of four digits, separated by optional
\* whitespace, between word boundaries.
IsAadhaarForm(text) ==
    \E i \in 0..Len(text), a \in 0..Len(text), b \in 0..Len(text) :
        /\ i + 12 + a + b <= Len(text)
        /\ AtWordBoundary(text, i)
        /\ AtWordBoundary(text, i + 12 + a + b)
        /\ \A k \in 1..4 : text[i + k] \in Digit
        /\ \A k \in 1..a : text[i + 4 + k] \in Space
        /\ \A k \in 1..4 : text[i + 4 + a + k] \in Digit
        /\ \A k \in 1..b : text[i + 8 + a + k] \in Space
        /\ \A k \in 1..4 : text[i + 8 + a + b + k] \in Digit

aadhaar_example == << "1", "2", "3", "4", " ", "5", "6", "7", "8", " ", "9", "0", "1", "2" >>
aadhaar_short_example == << "1", "2", "3", "4", " ", "5", "6", "7", "8", " ", "9", "0", "1" >>

\* C19: the aadhaar rule returns valid == true iff the text contains, between
\* word boundaries, three groups of four digits separated by optional
\* whitespace (12 digits once the whitespace is removed); "1234 5678 9012" is
\* valid and "1234 5678 901" is not.
C19_AadhaarValidIffForm ==
    (rcall.op = "validate" /\ rcall.rule = "aadhaar") =>
        /\ ~rcall.outcome.raised
        /\ (rcall.outcome.result.valid <=> IsAadhaarForm(rcall.text))
        /\ (rcall.text = aadhaar_example => rcall.outcome.result.valid)
        /\ (rcall.text = aadhaar_short_example => ~rcall.outcome.result.valid)

\* A number found inside a longer text, its groups separated by spaces.
C19_Witness ==
    /\ rcall.op = "validate"
    /\ rcall.rule = "aadhaar"
    /\ rcall.outcome.result.valid
    /\ Len(rcall.text) > 14
    /\ \E i \in 1..Len(rcall.text) : rcall.text[i] = " "

\* The text holds five letters, four digits and one letter between word
\* boundaries.
IsPanForm(text) ==
    \E i \in 0..(Len(text) - 10) :
        /\ AtWordBoundary(text, i)
        /\ AtWordBoundary(text, i + 10)
        /\ \A k \in 1..5 : text[i + k] \in Upper \cup Lower
        /\ \A k \in 6..9 : text[i + k] \in Digit
        /\ text[i + 10] \in Upper \cup Lower

pan_example == << "A", "B", "C", "D", "E", "1", "2", "3", "4", "F" >>
pan_short_example == << "A", "B", "C", "D", "E", "1", "2", "3", "4" >>

\* C20: the pan rule returns valid == true iff the text contains, between
\* word boundaries, five letters followed by four digits followed by one
\* letter; "ABCDE1234F" is valid and "ABCDE1234" is not.
C20_PanValidIffForm ==
    (rcall.op = "validate" /\ rcall.rule = "pan") =>
        /\ ~rcall.outcome.raised
        /\ (rcall.outcome.result.valid <=> IsPanForm(rcall.text))
        /\ (rcall.text = pan_example => rcall.outcome.result.valid)
        /\ (rcall.text = pan_short_example => ~rcall.outcome.result.valid)

\* A PAN in lower-case letters next to other words.
C20_Witness ==
    /\ rcall.op = "validate"
    /\ rcall.rule = "pan"
    /\ rcall.outcome.result.valid
    /\ Len(rcall.text) > 10
    /\ \E i \in 1..Len(rcall.text) : rcall.text[i] \in Lower

\* The lengths a pattern of the date rule allows its three fields.
FieldLens(date_format) ==
    CASE date_format = "%d/%m/%Y" -> << { 1, 2 }, { 1, 2 }, { 4 } >>
      [] date_format = "%d/%m/%y" -> << { 1, 2 }, { 1, 2 }, { 2 } >>
      [] date_format = "%Y/%m/%d" -> << { 4 }, { 1, 2 }, { 1, 2 } >>

\* u is three digit fields of the format's lengths joined by "/" or "-".
DateShaped(u, date_format) ==
    /\ \A k \in 1..Len(u) : u[k] \in Digit \cup { "/", "-" }
    /\ Cardinality({ k \in 1..Len(u) : u[k] \in { "/", "-" } }) = 2
    /\ \A n \in 1..3 : Len(DateFields(ReplaceDash(u))[n]) \in FieldLens(date_format)[n]

\* text[i..j] lies between word boundaries, has the shape of the format and
\* is a calendar date under it.
ParseableDateAt(text, i, j, date_format) ==
    /\ AtWordBoundary(text, i - 1)
    /\ AtWordBoundary(text, j)
    /\ DateShaped(SubSeq(text, i, j), date_format)
    /\ ~strptime(ReplaceDash(SubSeq(text, i, j)), date_format).raised

HasParseableDate(text) ==
    \E k \in 1..Len(date_patterns), i \in 1..Len(text), j \in 1..Len(text) :
        i < j /\ ParseableDateAt(text, i, j, date_patterns[k][2])

\* s is four digits, "-", two digits, "-", two digits.
IsYmdForm(s) ==
    /\ Len(s) = 10
    /\ \A k \in { 1, 2, 3, 4, 6, 7, 9, 10 } : s[k] \in Digit
    /\ s[5] = "-" /\ s[8] = "-"

\* C21: the date rule returns valid == true iff some substring of the text
\* matches one of the rule's patterns and is a calendar date under that
\* pattern's format; it never raises; every collected date carries its
\* original substring, its format and its YYYY-MM-DD form; and
\* "Date: 15/08/1990" yields exactly one date, 1990-08-15.
C21_DateValidIffParseableMatch ==
    (rcall.op = "validate" /\ rcall.rule = "date") =>
        /\ ~rcall.outcome.raised
        /\ (rcall.outcome.result.valid <=> HasParseableDate(rcall.text))
        /\ \A n \in 1..Len(rcall.outcome.result.details.dates) :
               LET d == rcall.outcome.result.details.dates[n]
               IN  /\ \E i \in 1..Len(rcall.text), j \in 1..Len(rcall.text) :
                          /\ SubSeq(rcall.text, i, j) = d.original
                          /\ ParseableDateAt(rcall.text, i, j, d.format)
                   /\ IsYmdForm(d.parsed)
        /\ (rcall.text = date_example =>
               /\ Len(rcall.outcome.result.details.dates) = 1
               /\ rcall.outcome.result.details.dates[1].parsed
                      = << "1", "9", "9", "0", "-", "0", "8", "-", "1", "5" >>)

\* The same without the two places where the rule departs: the verdict of
\* texts in which only an overlapped substring is a date, and the form of a
\* year below 1000.
DatesFoundAreParseable ==
    (rcall.op = "validate" /\ rcall.rule = "date") =>
        /\ ~rcall.outcome.raised
        /\ (rcall.outcome.result.valid => HasParseableDate(rcall.text))
        /\ (rcall.outcome.result.valid <=> Len(rcall.outcome.result.details.dates) > 0)
        /\ \A n \in 1..Len(rcall.outcome.result.details.dates) :
               LET d == rcall.outcome.result.details.dates[n]
               IN  \E i \in 1..Len(rcall.text), j \in 1..Len(rcall.text) :
                       /\ SubSeq(rcall.text, i, j) = d.original
                       /\ ParseableDateAt(rcall.text, i, j, d.format)

\* The call just made repeats the logged first call: same operation, text
\* and arguments.
RepeatsEarlier ==
    /\ earlier.op \in { "validate_text", "validate_document_type" }
    /\ vcall.op = earlier.op
    /\ vcall.text = earlier.text
    /\ vcall.rule_names = earlier.rule_names
    /\ (vcall.op = "validate_document_type" =>
            vcall.document_type = earlier.document_type)
    /\ earlier.since # { }

Reconfigured == earlier.since \cap { "add_rule", "remove_rule" } # { }

\* C22: a validate_text call that repeats an earlier one (same text, same
\* rule_names) on the same rule list returns the identical report, whatever
\* validate_text and validate_document_type calls were made in between; such
\* calls leave the rule list as it was.
C22_RepeatedCallSameReport ==
    (RepeatsEarlier /\ vcall.op = "validate_text") =>
        /\ (~Reconfigured => rules = earlier.rules)
        /\ (rules = earlier.rules => report = earlier.report)

\* The second of two filtered calls on a non-blank text, with calls of both
\* validate operations in between, on a rule list that was extended and cut
\* back to what it was.
C22_Witness ==
    /\ RepeatsEarlier
    /\ vcall.op = "validate_text"
    /\ earlier.since = { "validate_text", "validate_document_type",
                         "add_rule", "remove_rule" }
    /\ vcall.rule_names.given
    /\ rules = earlier.rules
    /\ Len(report.rule_results) > 0
    /\ report = earlier.report

\* C29: a validate_document_type call that repeats an earlier one (same text,
\* same document_type) returns the identical report whatever add_rule and
\* remove_rule calls changed the engine's rule list in between, and the
\* validate calls leave the rule list of the engine as it was; the report is
\* the one the same call returns on an engine constructed without custom
\* rules.
C29_DocumentReportIgnoresEngineRules ==
    /\ (RepeatsEarlier /\ vcall.op = "validate_document_type") =>
           /\ report = earlier.report
           /\ (~Reconfigured => rules = earlier.rules)
    /\ vcall.op = "validate_document_type" =>
           report = validate_document_type(TextValidatorInit(<< >>), vcall.text,
                                           vcall.document_type).report

\* The second of two aadhaar calls on a text holding a date, the engine's
\* rule list having lost its length rule and gained a custom rule in between.
C29_Witness ==
    /\ RepeatsEarlier
    /\ vcall.op = "validate_document_type"
    /\ vcall.document_type = t_aadhaar
    /\ Reconfigured
    /\ Len(rules) = 2
    /\ rules[2].name = "digits"
    /\ Len(earlier.rules) = 2
    /\ earlier.rules[1].name = "length"
    /\ Len(report.rule_results) = 4
    /\ report.rule_results[4].valid
    /\ report = earlier.report

\* The filter of the call just made is a non-empty list none of whose names
\* is the name of a rule of the engine.
FilterMatchesNoRule ==
    /\ vcall.rule_names.given
    /\ Len(vcall.rule_names.names) > 0
    /\ \A i \in 1..Len(rules), k \in 1..Len(vcall.rule_names.names) :
           rules[i].name # vcall.rule_names.names[k]

\* C30: validate_text on non-blank text with a non-empty rule_names filter
\* that names no rule of the engine evaluates no rule and returns
\* valid == true, rules_passed == 0, rules_failed == 0 and an empty
\* rule_results.
C30_UnmatchedFilterIsValid ==
    (vcall.op = "validate_text" /\ ~AllSpace(vcall.text) /\ FilterMatchesNoRule) =>
        /\ vcall.evaluated = << >>
        /\ report.valid
        /\ report.rules_passed = 0
        /\ report.rules_failed = 0
        /\ report.rule_results = << >>

\* A filter of two names on an engine of three rules, none of them named,
\* and a text that is not blank.
C30_Witness ==
    /\ vcall.op = "validate_text"
    /\ vcall.text = << " ", "#", " " >>
    /\ FilterMatchesNoRule
    /\ Len(vcall.rule_names.names) = 2
    /\ Len(rules) = 3
    /\ report.valid
    /\ report.rule_results = << >>

\* The keywords, pattern and data type the claim gives a field definition:
\* for a name of the catalogue the caller's keywords when supplied, else the
\* catalogue's, with the catalogue's pattern and data type; for another name
\* the caller's keywords (default the lower-cased name), pattern (default
\* none) and data type (default text).
InCatalogue(field_def) == \E key \in PredefinedKeys : SameIgnoringCase(field_def.name, key)
CatalogueEntry(field_def) ==
    predefined_fields(CHOOSE key \in PredefinedKeys : SameIgnoringCase(field_def.name, key))
ClaimedDefinition(field_def) ==
    [name |-> field_def.name,
     keywords |->
         IF "keywords" \in DOMAIN field_def THEN field_def.keywords
         ELSE IF InCatalogue(field_def) THEN CatalogueEntry(field_def).keywords
         ELSE << [ i \in 1..Len(field_def.name) |-> LowerCh(field_def.name[i]) ] >>,
     pattern |->
         IF InCatalogue(field_def) THEN CatalogueEntry(field_def).pattern
         ELSE IF "pattern" \in DOMAIN field_def THEN field_def.pattern
         ELSE NoPattern,
     data_type |->
         IF InCatalogue(field_def) THEN CatalogueEntry(field_def).data_type
         ELSE IF "data_type" \in DOMAIN field_def THEN field_def.data_type
         ELSE "text",
     required |-> FALSE]

\* C23: extract_fields returns for each field definition what
\* _extract_single_field finds with the keywords, pattern and data type the
\* claim gives it (the catalogue's pattern and data type for a catalogue
\* name, whatever the caller supplied), and every emitted field_name is the
\* name as the caller gave it.
C23_CatalogueResolution ==
    Extracted =>
        /\ \A fi \in 1..Len(field_definitions) :
               /\ fcall.returned[fi]
                      = _extract_single_field(ClaimedDefinition(field_definitions[fi]),
                                              text_blocks).best_match
               /\ fcall.returned[fi] # NoField =>
                      fcall.returned[fi].field_name = field_definitions[fi].name
        /\ \A k \in 1..Len(extracted_fields) :
               \E fi \in 1..Len(field_definitions) :
                   extracted_fields[k].field_name = field_definitions[fi].name

\* "Phone" given with the keyword "ph", a digits pattern and the number type,
\* on all blocks: the value is what the catalogue's phone pattern gives on
\* "ph +91 9876543210", not the run of digits the caller's pattern finds in
\* "ph 9876543210".
C23_Witness ==
    /\ Extracted
    /\ Len(field_definitions) = 2
    /\ field_definitions[1].name = << "P","h","o","n","e" >>
    /\ field_definitions[2].name = << "A","G","E" >>
    /\ Len(extracted_fields) = 2
    /\ extracted_fields[1].field_name = << "P","h","o","n","e" >>
    /\ extracted_fields[1].value = << "9", "1", " " >>
    /\ extracted_fields[1].bbox = 3
    /\ extracted_fields[2].field_name = << "A","G","E" >>

\* The candidate region as the claim describes it: the text after the first
\* occurrence of the keyword, compared without regard to case, less its
\* leading whitespace, colons, commas and hyphens.
RECURSIVE DropLeading(_)
DropLeading(s) ==
    IF s # << >> /\ Head(s) \in Space \cup { ":", ",", "-" }
    THEN DropLeading(Tail(s))
    ELSE s
ClaimedRegion(text, keyword) ==
    LET at == CHOOSE i \in 1..Len(text) :
                  /\ SameIgnoringCase(SubSeq(text, i, i + Len(keyword) - 1), keyword)
                  /\ \A h \in 1..(i - 1) :
                         ~SameIgnoringCase(SubSeq(text, h, h + Len(keyword) - 1), keyword)
    IN  DropLeading(SubSeq(text, at + Len(keyword), Len(text)))

\* The pattern or type match of a field in a region: (found, pair).
RegionMatch(field, region, keyword) ==
    IF field.pattern # NoPattern THEN PatternBranch(region, field.pattern)
    ELSE CASE field.data_type = "phone" -> TypedBranch(region, "phone", 90)
           [] field.data_type = "email" -> TypedBranch(region, "email", 95)
           [] field.data_type = "number" -> TypedBranch(region, "number", 80)
           [] field.data_type = "date" -> TypedBranch(region, "date", 85)
           [] OTHER -> TextBranch(region, StrLower(keyword))

\* C26: for a block that contains a keyword of the field, the value comes
\* from the candidate region of the first keyword, in keyword-list order,
\* that occurs in the block; when no pattern or type match is found in that
\* region the block yields no value (value absent, confidence 0), whatever
\* other keywords of the field occur in the block.
C26_FirstKeywordRegionDecides ==
    Extracted =>
        \A fi \in 1..Len(field_definitions) :
            \A j \in 1..Len(CallLog(fi)) :
                LET bi == CallLog(fi)[j].block
                    keyword == FirstKeyword(fi, bi)
                    region == ClaimedRegion(text_blocks[bi].text, keyword)
                    m == RegionMatch(Resolved(fi), region, keyword)
                IN  /\ m.found =>
                        /\ CallLog(fi)[j].value = m.pair.value
                        /\ CallLog(fi)[j].confidence = m.pair.confidence
                    /\ ~m.found =>
                        /\ CallLog(fi)[j].value = None
                        /\ CallLog(fi)[j].confidence = 0

\* The same for the blocks in which the first keyword's region holds a match,
\* or no other keyword of the field holds one.
FirstKeywordRegionWhenMatched ==
    Extracted =>
        \A fi \in 1..Len(field_definitions) :
            \A j \in 1..Len(CallLog(fi)) :
                LET bi == CallLog(fi)[j].block
                    keyword == FirstKeyword(fi, bi)
                    region == ClaimedRegion(text_blocks[bi].text, keyword)
                    m == RegionMatch(Resolved(fi), region, keyword)
                IN  m.found =>
                        /\ CallLog(fi)[j].value = m.pair.value
                        /\ CallLog(fi)[j].confidence = m.pair.confidence

\* A preprocess call with only auto_rotate enabled whose image was loaded.
AutoRotated ==
    /\ pp.op = "preprocess"
    /\ pp.self = auto_rotate_only
    /\ ~pp.loaded.raised

\* The call returned the loaded image rotated.
WasRotated ==
    /\ ~pp.raised
    /\ pp.img # pp.loaded.img
    /\ pp.img.applied = Append(pp.loaded.img.applied, "rotate")

\* The offsets the claim gives the first up-to-10 lines.
ClaimedOffset(a) == IF a <= 90 THEN a ELSE a - 180
ClaimedOffsets(thetas) ==
    [ i \in 1..(IF Len(thetas) < 10 THEN Len(thetas) ELSE 10) |->
          ClaimedOffset(thetas[i]) ]

\* Lines were detected: the edge map of a colour image gave some.
LinesDetected ==
    /\ Len(pp.loaded.img.shape) = 3
    /\ pp.env.fails_at \notin { "gray", "edges", "lines" }
    /\ pp.env.lines.found

\* C25: _auto_rotate rotates the image iff lines were detected and the
\* absolute value of the median of the signed offsets of the first up-to-10
\* lines exceeds 1 degree, every offset lying in (-90, 90]; in every other
\* case the image is returned unrotated.
C25_RotatesIffMedianExceedsOne ==
    AutoRotated =>
        /\ WasRotated <=>
               /\ LinesDetected
               /\ Abs(Median2(ClaimedOffsets(pp.env.lines.thetas))) > 2
        /\ ~WasRotated => (~pp.raised /\ pp.img = pp.loaded.img)
        /\ LinesDetected =>
               \A i \in 1..Len(ClaimedOffsets(pp.env.lines.thetas)) :
                   /\ ClaimedOffsets(pp.env.lines.thetas)[i] > -90
                   /\ ClaimedOffsets(pp.env.lines.thetas)[i] <= 90

\* The same for a detector whose result the loop can unpack.
RotatesIffMedianExceedsOneWhenUnpacked ==
    (AutoRotated /\ pp.env.lines.layout # "N12") =>
        /\ WasRotated <=>
               /\ LinesDetected
               /\ Abs(Median2(ClaimedOffsets(pp.env.lines.thetas))) > 2
        /\ ~WasRotated => (~pp.raised /\ pp.img = pp.loaded.img)

\* The normals of the page's lines in the returned image: a rotation by r
\* degrees, counter-clockwise, takes a normal at theta to theta - r.
RotationApplied == Median2(Angles(pp.env.lines.thetas)) \div 2
ReturnedThetas ==
    [ i \in 1..Len(pp.env.lines.thetas) |->
          IF WasRotated THEN (pp.env.lines.thetas[i] - RotationApplied) % 180
          ELSE pp.env.lines.thetas[i] ]

\* Twice the skew of the returned image's text lines, measured as the median
\* of the first up-to-10 normals against 90 degrees.
ReturnedSkew2 ==
    Median2([ i \in 1..Len(First10(ReturnedThetas)) |-> ReturnedThetas[i] ]) - 180

RecognizedWithPreprocessing ==
    /\ ecall.op = "extract_text"
    /\ ecall.self.use_preprocessing
    /\ ecall.out.recognized

\* The recognizer was handed the array ImagePreprocessor.preprocess returns
\* for the call's image.
HandedPreprocessed ==
    \E r \in { preprocess(config_preprocessing, ecall.image, ecall.env) } :
        /\ ~r.raised
        /\ ecall.out.handed = << r.img >>

\* C27: when preprocessing is enabled on the engine, every image extract_text
\* hands to the recognizer has first passed through
\* ImagePreprocessor.preprocess, whether the input is a file path, a pixel
\* array or a PIL image, the temporary file paths of the API endpoints
\* included.
C27_RecognizerGetsPreprocessedImage ==
    RecognizedWithPreprocessing => HandedPreprocessed

\* The same for the inputs that are not file paths; an engine without
\* preprocessing hands the recognizer the image it was given.
ArraysArePreprocessed ==
    /\ (RecognizedWithPreprocessing /\ ~IsStr(ecall.image)) => HandedPreprocessed
    /\ (ecall.op = "extract_text" /\ ~ecall.self.use_preprocessing) =>
           (ecall.out.recognized /\ ecall.out.handed = << ecall.image >>)

\* The engines the requests got from get_ocr_engine.
EnginesUsed ==
    { worker[w].engine : w \in { v \in 1..Len(worker) : worker[v].engine # 0 } }
    \cup (IF "engine" \in DOMAIN health /\ health.engine # 0
          THEN { health.engine } ELSE { })

\* C28: under every interleaving of the pool's threads running
\* process_image_sync and the event loop running api_health_check,
\* get_ocr_engine constructs at most one OCREngine and every request uses
\* that instance.
C28_AtMostOneEngine ==
    /\ Len(ocr_engine.made) <= 1
    /\ Cardinality(EnginesUsed) <= 1

\* Every engine a request uses is one that was constructed, and the global,
\* once assigned, holds a constructed engine.
EngineUsedWasConstructed ==
    /\ EnginesUsed \subseteq 1..Len(ocr_engine.made)
    /\ ocr_engine.instance \in 0..Len(ocr_engine.made)

====
